---- MODULE Spec2Model ----
(***************************************************************************)
(* A model of gridpath-ai: the Area grid, the A* search, the map           *)
(* generator, the Game controller with its key handler, and the agents'    *)
(* run loops (greedy, A* replay, wall follower, frontier, Q-learning).     *)
(*                                                                         *)
(* Cells are the characters of the source: "." floor, "X" wall,            *)
(* "P" player, "E" exit, "V" visited.  A position is the tuple <<r, c>>,   *)
(* 0-based as in the source.  Python's None for a position is NoPos.       *)
(***************************************************************************)
EXTENDS Integers, Sequences, FiniteSets, TLC

\* ------------------------------------------------------------------ bounds
\* Largest grid of the pure-function specifications (A*, generator).
MaxRows == 2
MaxCols == 3
\* Largest number of wall cells in an enumerated search grid.
MaxWalls == 2
\* Largest dimensions passed to the map generator.
GenMaxRows == 3
GenMaxCols == 3
\* Runs started from the menu, and key presses delivered, in one behaviour.
MaxRuns == 2
MaxKeys == 2
\* The Q-learning loop bounds standing in for QLearningConfig.EPISODES (1000)
\* and QLearningConfig.STEPS_PER_EPISODE (2000).
Episodes == 2
StepsPerEpisode == 1
\* The greatest number of moves of one run that is counted.
MoveCap == 12
\* The wall-free rooms of the single-run specification.
RoomRows == 3
RoomCols == 3
\* Map files: at most MaxLines lines of at most MaxLineLen characters.
MaxLines == 3
MaxLineLen == 3
AreaRows == 2
AreaCols == 2
AreaCalls == 3
GameRows == 2
GameCols == 2
QSteps == 2
RevisitSteps == 3
MaxDecays == 995

\* ------------------------------------------------------------------- basics
NoPos == <<>>

Abs(x) == IF x < 0 THEN -x ELSE x

Cells(M, N) == (0 .. M - 1) \X (0 .. N - 1)

\* Area(M, N, default_value): an M x N grid filled with default_value.
Area(M, N, default_value) ==
    [rows |-> M, cols |-> N, grid |-> [p \in Cells(M, N) |-> default_value]]

\* The range check shared by get_cell and set_cell.
InBounds(area, r, c) == 0 <= r /\ r < area.rows /\ 0 <= c /\ c < area.cols

\* get_cell: the stored value; "IndexError" when out of bounds.
get_cell(area, r, c) ==
    IF ~InBounds(area, r, c) THEN "IndexError" ELSE area.grid[<<r, c>>]

\* (mutant: out-of-range coordinates are clamped into the grid.)
set_cell_clamped(area, r, c, value) ==
    LET row == IF r < 0 THEN 0 ELSE IF r >= area.rows THEN area.rows - 1 ELSE r
        col == IF c < 0 THEN 0 ELSE IF c >= area.cols THEN area.cols - 1 ELSE c
    IN  [area EXCEPT !.grid[<<row, col>>] = value]

\* set_cell: the area with one cell replaced; out of bounds raises, which
\* the callers modelled here never trigger (the area is returned unchanged).
set_cell(area, r, c, value) ==
    IF ~InBounds(area, r, c) THEN area
    ELSE [area EXCEPT !.grid[<<r, c>>] = value]

\* The walkability test without the look at the cell: any cell of the grid.
walkable_in_grid(area, non_walkable, p) == InBounds(area, p[1], p[2])

\* The walkability test every agent inlines:
\*   0 <= r < rows and 0 <= c < cols and get_cell(r, c) not in non_walkable
Walkable(area, non_walkable, p) ==
    InBounds(area, p[1], p[2]) /\ get_cell(area, p[1], p[2]) \notin non_walkable

\* Row-major order on positions (Python's tuple order).
PosLess(p, q) == p[1] < q[1] \/ (p[1] = q[1] /\ p[2] < q[2])

\* Game._find_char: first occurrence in row-major order, or None.
find_char(area, char) ==
    LET hits == {p \in Cells(area.rows, area.cols) : area.grid[p] = char}
    IN  IF hits = {} THEN NoPos
        ELSE CHOOSE p \in hits : \A q \in hits : q = p \/ PosLess(p, q)

\* Manhattan distance.
heuristic_distance(pos1, pos2) == Abs(pos1[1] - pos2[1]) + Abs(pos1[2] - pos2[2])

\* ----------------------------------------------------------------------- A*
\* The neighbour order of the search loop: up, down, left, right
\* (mutant: the last pair mistyped, so no step to the right).
AStarDirsTypo == << <<-1, 0>>, <<1, 0>>, <<0, -1>>, <<0, -1>> >>

AStarDirs == << <<-1, 0>>, <<1, 0>>, <<0, -1>>, <<0, 1>> >>

\* Python's order on the heap entries (f, (r, c)).
EntryLess(a, b) == a[1] < b[1] \/ (a[1] = b[1] /\ PosLess(a[2], b[2]))

\* (mutant: the greatest entry is popped, as with a negated priority.)
HeapMax(open_set) ==
    CHOOSE e \in open_set : \A d \in open_set : d = e \/ EntryLess(d, e)

\* heapq.heappop: the least entry.  Entries are pairwise different (a cell is
\* pushed only when its g-score strictly decreases), so the heap is a set.
HeapMin(open_set) ==
    CHOOSE e \in open_set : \A d \in open_set : d = e \/ EntryLess(e, d)

\* _reconstruct_path: walk came_from back from current, then drop the start
\* unless include_start.
RECURSIVE WalkBack(_, _, _)
WalkBack(came_from, current, path) ==
    IF current \in DOMAIN came_from
    THEN WalkBack(came_from, came_from[current], <<came_from[current]>> \o path)
    ELSE path

\* (mutant: the start cell is never dropped.)
reconstruct_path_keeps_start(came_from, current, include_start) ==
    WalkBack(came_from, current, <<current>>)

\* (mutant: without include_start the last cell is dropped, not the first.)
reconstruct_path_drops_goal(came_from, current, include_start) ==
    LET path == WalkBack(came_from, current, <<current>>)
    IN  IF include_start THEN path ELSE SubSeq(path, 1, Len(path) - 1)

reconstruct_path(came_from, current, include_start) ==
    LET path == WalkBack(came_from, current, <<current>>)
    IN  IF include_start THEN path ELSE Tail(path)

\* The state of one call of _a_star_pathfinding before its loop.
AStarStart(area, non_walkable, start, goal, include_start) ==
    [area |-> area, non_walkable |-> non_walkable, start |-> start, goal |-> goal,
     include_start |-> include_start,
     open_set |-> {<<heuristic_distance(start, goal), start>>},
     came_from |-> <<>>,
     g_score |-> (start :> 0),
     status |-> "running", path |-> <<>>, pops |-> 0]

\* f_score of a pushed neighbour.
FScore(tentative_g_score, neighbor, goal) ==
    tentative_g_score + heuristic_distance(neighbor, goal)

\* The body of "for dr, dc in ...": relax one neighbour of current.
Relax(st, current, d) ==
    LET neighbor == <<current[1] + AStarDirs[d][1], current[2] + AStarDirs[d][2]>>
        tentative_g_score == st.g_score[current] + 1
    IN  IF ~Walkable(st.area, st.non_walkable, neighbor) THEN st
        ELSE IF neighbor \in DOMAIN st.g_score /\ ~(tentative_g_score < st.g_score[neighbor])
        THEN st
        ELSE [st EXCEPT
                !.came_from = (neighbor :> current) @@ st.came_from,
                !.g_score = (neighbor :> tentative_g_score) @@ st.g_score,
                !.open_set = st.open_set \cup
                    {<<FScore(tentative_g_score, neighbor, st.goal), neighbor>>}]

\* The value of the one element of a singleton set.  Binding an intermediate
\* state as the element of a singleton makes it a value computed once.
TheOne(S) == CHOOSE v \in S : TRUE

RECURSIVE Expand(_, _, _)
Expand(st, current, d) ==
    IF d > Len(AStarDirs) THEN st
    ELSE TheOne({Expand(relaxed, current, d + 1) : relaxed \in {Relax(st, current, d)}})

\* (mutant: the least entry is read but left on the heap.)
AStarIterPeeks(st) ==
    IF st.open_set = {} THEN [st EXCEPT !.status = "none"]
    ELSE LET current == HeapMin(st.open_set)[2]
         IN  IF current = st.goal
             THEN [st EXCEPT !.status = "found",
                     !.path = reconstruct_path(st.came_from, current, st.include_start)]
             ELSE Expand(st, current, 1)

\* One iteration of "while open_set": pop, return at the goal, else expand.
\* An empty heap ends the loop with None.
AStarIter(st) ==
    IF st.open_set = {} THEN [st EXCEPT !.status = "none"]
    ELSE LET e == HeapMin(st.open_set)
             current == e[2]
             popped == [st EXCEPT !.open_set = st.open_set \ {e}, !.pops = st.pops + 1]
         IN  IF current = st.goal
             THEN [popped EXCEPT !.status = "found",
                     !.path = reconstruct_path(st.came_from, current, st.include_start)]
             ELSE Expand(popped, current, 1)

RECURSIVE AStarRun(_)
AStarRun(st) ==
    IF st.status # "running" THEN st
    ELSE TheOne({AStarRun(iterated) : iterated \in {AStarIter(st)}})

\* _a_star_pathfinding: [found |-> FALSE] is None.
a_star_pathfinding(area, non_walkable, start, goal, include_start) ==
    LET fin == AStarRun(AStarStart(area, non_walkable, start, goal, include_start))
    IN  [found |-> fin.status = "found", path |-> fin.path]

\* ------------------------------------------------------------ map generator
\* AStarAgent._a_star_pathfinding as generate_random_map calls it, on the
\* headless Game of the open pathfinder_map (non_walkable = set()).
AStarAgent_a_star_pathfinding(area, non_walkable, start, goal, include_start) ==
    a_star_pathfinding(area, non_walkable, start, goal, include_start)

\* Python's floor division for the non-negative operands used here.
FloorDiv(a, b) == a \div b

\* random.randint(0, M//4) x random.randint(0, N//4)
StartChoices(M, N) == (0 .. FloorDiv(M, 4)) \X (0 .. FloorDiv(N, 4))

\* random.randint(M*3//4, M-1) x random.randint(N*3//4, N-1)
ExitChoices(M, N) == (FloorDiv(M * 3, 4) .. M - 1) \X (FloorDiv(N * 3, 4) .. N - 1)

SeqToSet(sq) == {sq[i] : i \in 1 .. Len(sq)}

\* set_cell of value on every cell of the set S.
SetCells(area, S, value) ==
    [area EXCEPT !.grid = [p \in DOMAIN area.grid |-> IF p \in S THEN value ELSE area.grid[p]]]

\* Steps 1-3: the wall-filled game_map with the guaranteed path carved.
GenCarved(M, N, start_pos, exit_pos) ==
    LET pathfinder_map == Area(M, N, ".")
        guaranteed_path ==
            AStarAgent_a_star_pathfinding(pathfinder_map, {}, start_pos, exit_pos, TRUE).path
    IN  [path_cells |-> SeqToSet(guaranteed_path),
         game_map |-> SetCells(Area(M, N, "X"), SeqToSet(guaranteed_path), ".")]

\* Steps 4-5: opened is the set of non-path cells whose random draw exceeded
\* wall_density; then P is written at start_pos and E at exit_pos, in that order.
GenPlaced(game_map, opened, start_pos, exit_pos) ==
    set_cell(set_cell(SetCells(game_map, opened, "."),
                      start_pos[1], start_pos[2], "P"),
             exit_pos[1], exit_pos[2], "E")

\* (mutant: the neighbour loop does not test visited_flood_fill.)
RECURSIVE FloodNeighborsRevisits(_, _, _, _)
FloodNeighborsRevisits(g, r, c, d) ==
    IF d > Len(AStarDirs) THEN g
    ELSE LET neighbor == <<r + AStarDirs[d][1], c + AStarDirs[d][2]>>
             take == /\ InBounds(g.game_map, neighbor[1], neighbor[2])
                     /\ get_cell(g.game_map, neighbor[1], neighbor[2]) # "X"
         IN  FloodNeighborsRevisits(
                IF take
                THEN [g EXCEPT !.visited_flood_fill = @ \cup {neighbor},
                               !.q = Append(@, neighbor)]
                ELSE g, r, c, d + 1)

\* The neighbour loop of one flood-fill iteration at (r, c).
RECURSIVE FloodNeighbors(_, _, _, _)
FloodNeighbors(g, r, c, d) ==
    IF d > Len(AStarDirs) THEN g
    ELSE LET neighbor == <<r + AStarDirs[d][1], c + AStarDirs[d][2]>>
             take == /\ InBounds(g.game_map, neighbor[1], neighbor[2])
                     /\ neighbor \notin g.visited_flood_fill
                     /\ get_cell(g.game_map, neighbor[1], neighbor[2]) # "X"
         IN  FloodNeighbors(
                IF take
                THEN [g EXCEPT !.visited_flood_fill = @ \cup {neighbor},
                               !.q = Append(@, neighbor)]
                ELSE g, r, c, d + 1)

\* Step 6, one iteration of "while q".
FloodIter(g) ==
    LET cur == Head(g.q)
        popped == [g EXCEPT !.q = Tail(g.q),
                            !.reachable_cells = @ \cup {cur}]
    IN  FloodNeighbors(popped, cur[1], cur[2], 1)

\* Step 7: every cell not in reachable_cells becomes a wall.
Pruned(game_map, reachable_cells) ==
    SetCells(game_map, DOMAIN game_map.grid \ reachable_cells, "X")

\* The generator before its first statement.
GenIdle(M, N) ==
    [M |-> M, N |-> N, phase |-> "carve", game_map |-> Area(M, N, "X"),
     start_pos |-> NoPos, exit_pos |-> NoPos, path_cells |-> {},
     q |-> <<>>, visited_flood_fill |-> {}, reachable_cells |-> {}, iters |-> 0]

\* ------------------------------------------------------------ reference BFS
\* The four neighbours of p that are in bounds and walkable.
StepsFrom(area, non_walkable, p) ==
    {q \in Cells(area.rows, area.cols) :
        Abs(p[1] - q[1]) + Abs(p[2] - q[2]) = 1 /\ Walkable(area, non_walkable, q)}

\* Breadth-first distance from the cells of frontier (at distance d) to goal;
\* -1 when goal is not reachable.
RECURSIVE BFSLevel(_, _, _, _, _, _)
BFSLevel(area, non_walkable, goal, frontier, seen, d) ==
    IF goal \in frontier THEN d
    ELSE IF frontier = {} THEN -1
    ELSE LET next == UNION {StepsFrom(area, non_walkable, p) : p \in frontier} \ seen
         IN  BFSLevel(area, non_walkable, goal, next, seen \cup next, d + 1)

BFSDist(area, non_walkable, start, goal) ==
    BFSLevel(area, non_walkable, goal, {start}, {start}, 0)

\* Every cell reachable from start by 4-connected walkable steps.
RECURSIVE ReachFrom(_, _, _)
ReachFrom(area, non_walkable, seen) ==
    LET next == UNION {StepsFrom(area, non_walkable, p) : p \in seen} \ seen
    IN  IF next = {} THEN seen ELSE ReachFrom(area, non_walkable, seen \cup next)

\* ----------------------------------------------------------------- state
VARIABLES
    search,     \* the locals of one _a_star_pathfinding call in progress
    gen,        \* the locals of one generate_random_map call in progress
    sim,        \* main()'s active map, the Game built on it and the agent's run loop
    call        \* the last call of a library function: its arguments and its outcome

vars == <<search, gen, sim, call>>

\* The variables of the parts a specification does not exercise.
SearchIdle == [status |-> "idle"]

GenNone == [phase |-> "idle"]

SimNone == [pc |-> "idle"]

CallNone == [op |-> "none"]

\* ------------------------------------------------- specification: A* search
\* Grids of MaxRows x MaxCols cells with at most MaxWalls walls; start and
\* goal on non-wall cells, as every caller passes them.
SearchAreas ==
    {[rows |-> MaxRows, cols |-> MaxCols,
      grid |-> [p \in Cells(MaxRows, MaxCols) |-> IF p \in W THEN "X" ELSE "."]] :
        W \in {S \in SUBSET Cells(MaxRows, MaxCols) : Cardinality(S) <= MaxWalls}}

InitAStar ==
    \E area \in SearchAreas, include_start \in BOOLEAN :
        \E start, goal \in {p \in Cells(area.rows, area.cols) : area.grid[p] # "X"} :
            search = AStarStart(area, {"X"}, start, goal, include_start)
    /\ gen = GenNone
    /\ sim = SimNone
    /\ call = CallNone

\* One iteration of the search loop.
AStarLoopStep ==
    /\ search.status = "running"
    /\ search' = AStarIter(search)
    /\ UNCHANGED <<gen, sim, call>>

NextAStar == AStarLoopStep

SpecAStar == InitAStar /\ [][NextAStar]_vars

\* The interpreter keeps running the loop of the call.
FairSpecAStar == SpecAStar /\ WF_vars(AStarLoopStep)

\* Steps of a returned path: its cells, not counting the start.
PathSteps(st) == IF st.include_start THEN Len(st.path) - 1 ELSE Len(st.path)

\* C1: whenever the goal is reachable from start through in-bounds walkable
\* cells, the finished search has returned a path and its number of steps is
\* the breadth-first distance from start to goal.
C1_AStarShortest ==
    (search.status # "running"
        /\ BFSDist(search.area, search.non_walkable, search.start, search.goal) >= 0)
    => (search.status = "found"
        /\ PathSteps(search) =
            BFSDist(search.area, search.non_walkable, search.start, search.goal))

\* A search that returned a path longer than the Manhattan distance: the walls
\* forced a detour.
C1_Witness ==
    /\ search.status = "found"
    /\ PathSteps(search) > heuristic_distance(search.start, search.goal)

\* C2: the finished search returned None exactly when the goal is not
\* reachable from start.
C2_NoneIffUnreachable ==
    search.status # "running"
    => ((search.status = "none")
        <=> (BFSDist(search.area, search.non_walkable, search.start, search.goal) < 0))

\* A search that ended with None after expanding more than the start cell.
C2_Witness ==
    /\ search.status = "none"
    /\ search.pops > 1

\* --------------------------------------------- specification: map generator
\* generate_random_map(M, N) for every 1 <= M <= GenMaxRows, 1 <= N <= GenMaxCols.
InitGen ==
    /\ \E M \in 1 .. GenMaxRows, N \in 1 .. GenMaxCols : gen = GenIdle(M, N)
    /\ search = SearchIdle
    /\ sim = SimNone
    /\ call = CallNone

\* Steps 1-3: pick start and exit, carve the guaranteed path.
GenCarve ==
    /\ gen.phase = "carve"
    /\ \E start_pos \in StartChoices(gen.M, gen.N), exit_pos \in ExitChoices(gen.M, gen.N) :
        LET carved == GenCarved(gen.M, gen.N, start_pos, exit_pos)
        IN  gen' = [gen EXCEPT !.phase = "sparsify",
                        !.start_pos = start_pos, !.exit_pos = exit_pos,
                        !.path_cells = carved.path_cells,
                        !.game_map = carved.game_map]
    /\ UNCHANGED <<search, sim, call>>

\* Steps 4-6 up to the loop: the random openings, P and E, the queue seeded.
GenSparsify ==
    /\ gen.phase = "sparsify"
    /\ \E opened \in SUBSET (Cells(gen.M, gen.N) \ gen.path_cells) :
        gen' = [gen EXCEPT !.phase = "flood",
                    !.game_map = GenPlaced(gen.game_map, opened, gen.start_pos, gen.exit_pos),
                    !.q = <<gen.start_pos>>,
                    !.visited_flood_fill = {gen.start_pos}]
    /\ UNCHANGED <<search, sim, call>>

\* One iteration of the flood-fill loop.
GenFloodStep ==
    /\ gen.phase = "flood"
    /\ gen.q # <<>>
    /\ gen' = [FloodIter(gen) EXCEPT !.iters = gen.iters + 1]
    /\ UNCHANGED <<search, sim, call>>

\* The loop has ended: prune and return game_map.
GenPrune ==
    /\ gen.phase = "flood"
    /\ gen.q = <<>>
    /\ gen' = [gen EXCEPT !.phase = "done",
                    !.game_map = Pruned(gen.game_map, gen.reachable_cells)]
    /\ UNCHANGED <<search, sim, call>>

NextGen == GenCarve \/ GenSparsify \/ GenFloodStep \/ GenPrune

SpecGen == InitGen /\ [][NextGen]_vars

\* The interpreter keeps running the generator.
FairSpecGen == SpecGen /\ WF_vars(NextGen)

\* The cells of area carrying char.
CellsWith(area, char) == {p \in DOMAIN area.grid : area.grid[p] = char}

\* C3: in every returned grid, every non-wall cell is reachable from the
\* Player cell (the cell tagged P) through 4-connected non-wall cells.
C3_AllNonWallReachable ==
    gen.phase = "done"
    => LET player == find_char(gen.game_map, "P")
       IN  \A p \in DOMAIN gen.game_map.grid :
              gen.game_map.grid[p] # "X"
              => (player # NoPos /\ p \in ReachFrom(gen.game_map, {"X"}, {player}))

\* C4: every returned grid holds exactly one P and exactly one E.
C4_OnePlayerOneExit ==
    gen.phase = "done"
    => (Cardinality(CellsWith(gen.game_map, "P")) = 1
        /\ Cardinality(CellsWith(gen.game_map, "E")) = 1)

\* Supporting lemma for C3: whenever the returned grid has a Player cell,
\* every non-wall cell is reachable from it.
GenReachableWhenPlayerExists ==
    (gen.phase = "done" /\ find_char(gen.game_map, "P") # NoPos)
    => \A p \in DOMAIN gen.game_map.grid :
          gen.game_map.grid[p] # "X"
          => p \in ReachFrom(gen.game_map, {"X"}, {find_char(gen.game_map, "P")})

\* Supporting lemma for C4: on every grid of more than one cell the returned
\* grid holds exactly one P and one E.
GenOnePlayerOneExitAboveOneCell ==
    (gen.phase = "done" /\ gen.M * gen.N > 1)
    => (Cardinality(CellsWith(gen.game_map, "P")) = 1
        /\ Cardinality(CellsWith(gen.game_map, "E")) = 1)

\* ===================================================== the simulation (sim)
\* sim is one record: main()'s active_map (game.area is the same object), the
\* attributes of the Game built on it, the locals of the agent's run loop and
\* its position pc, and history fields (pristine, moves, late_moves, keys, runs).
\*
\* The Game modelled is the one of src/game.py; the Game of
\* src/src/game/game.py is the same class without run_* methods and with only
\* the first branch of on_key_press.  The agents of src/src/agents use only
\* attributes both classes have.
\*
\* pc: "menu"   main() waits for a choice
\*     "start"  Game(active_map, ...) and the agent are constructed, run() not yet called
\*     "wait"   at "while is_paused: plt.pause(0.1)" of the current tick
\*     "sleep"  in plt.pause(animation_speed) after a move
\*     "show"   in plt.show() at the end of run()
\*     "crashed" an exception escaped main();  "exited" main() returned

\* animation_speed in hundredths of a second.
SpeedDefault == 15
SpeedStep == 5
SpeedMax == 100
SpeedMin == 1

\* Area.from_list(grid_list): grid_list is a list of rows.
from_list(grid_list) ==
    [rows |-> Len(grid_list), cols |-> Len(grid_list[1]),
     grid |-> [p \in Cells(Len(grid_list), Len(grid_list[1])) |-> grid_list[p[1] + 1][p[2] + 1]]]

\* Maps main() can have active: contents of map files (every non-wall cell
\* reachable from P, as the generator also produces them).
MapOpen == << <<"P", ".", ".">>,
              <<"X", ".", "E">> >>

MapDetour == << <<"P", "X", "E">>,
                <<".", ".", ".">> >>

ActiveMaps == {from_list(MapOpen), from_list(MapDetour)}

\* non_walkable_tiles of main().
NonWalkable == {"X"}

\* The keys delivered to on_key_press.
Keys == {"e", "r", "n", "m", "p", "s", "f", "up", "down", "left", "right", "", "er", "x"}

\* Python's  event.key in 'ernm'  (a substring test).
InErnm(key) == key \in {"", "e", "r", "n", "m", "er", "rn", "nm", "ern", "rnm", "ernm"}

\* {'e': 'EXIT', ...}.get(event.key): None for a key that is no key of the dict.
RequestOf(key) ==
    CASE key = "e" -> "EXIT" [] key = "r" -> "RESTART" [] key = "n" -> "NEW_MAP"
      [] key = "m" -> "MAIN_MENU" [] OTHER -> "None"

\* main() at its menu with active_map = area; q_file is the Q-table file
\* (exists, and its table when it does).
SimMenu(area, q_file) ==
    [pc |-> "menu", agent |-> "none", area |-> area, pristine |-> area,
     start_pos |-> NoPos, exit_pos |-> NoPos, player_pos |-> NoPos,
     mode |-> "manual", request |-> "CONTINUE", is_paused |-> FALSE,
     animation_speed |-> SpeedDefault, fig_open |-> FALSE,
     visited_cells |-> {}, player_direction |-> 0,
     path |-> <<>>, is_done |-> FALSE, no_new_cells_count |-> 0,
     training_mode |-> FALSE, episode |-> 0, step |-> 0, prev_action |-> -1,
     q_table |-> <<>>, epsilon |-> 0, q_file |-> q_file,
     steps_per_episode |-> StepsPerEpisode,
     moves |-> 0, late_moves |-> 0, keys |-> 0, runs |-> 0]

\* Game.__init__ (not headless) on the active map, then the agent's constructor.
\* A missing P or E raises ValueError, which main() does not catch.
GameInit(S, agent) ==
    LET start_pos == find_char(S.area, "P")
        exit_pos == find_char(S.area, "E")
    IN  IF start_pos = NoPos \/ exit_pos = NoPos
        THEN [S EXCEPT !.pc = "crashed", !.agent = agent, !.runs = @ + 1,
                !.moves = 0, !.late_moves = 0, !.keys = 0]
        ELSE [S EXCEPT !.pc = "start", !.agent = agent, !.runs = @ + 1,
                !.start_pos = start_pos, !.exit_pos = exit_pos,
                !.player_pos = start_pos, !.mode = "manual",
                !.request = "CONTINUE", !.is_paused = FALSE,
                !.animation_speed = SpeedDefault, !.fig_open = TRUE,
                !.visited_cells = {}, !.player_direction = 0, !.path = <<>>,
                !.is_done = FALSE, !.no_new_cells_count = 0,
                !.training_mode = FALSE, !.episode = 0, !.step = 0,
                !.prev_action = -1, !.q_table = <<>>, !.epsilon = 0,
                !.moves = 0, !.late_moves = 0, !.keys = 0]

\* _move_player_to that leaves a wall on the cell the player comes from.
move_player_to_leaves_wall(S, new_pos) ==
    LET marked == set_cell(S.area, S.player_pos[1], S.player_pos[2], "X")
    IN  [S EXCEPT !.area = set_cell(marked, new_pos[1], new_pos[2], "P"),
                  !.player_pos = new_pos,
                  !.moves = IF @ < MoveCap THEN @ + 1 ELSE @,
                  !.late_moves = IF S.request # "CONTINUE" /\ new_pos # S.player_pos
                                 THEN @ + 1 ELSE @]

\* Game._move_player_to.  moves counts the calls of this run (up to MoveCap),
\* late_moves those that changed the position while request was no longer
\* CONTINUE.
move_player_to(S, new_pos) ==
    LET marked == set_cell(S.area, S.player_pos[1], S.player_pos[2], "V")
    IN  [S EXCEPT !.area = set_cell(marked, new_pos[1], new_pos[2], "P"),
                  !.player_pos = new_pos,
                  !.moves = IF @ < MoveCap THEN @ + 1 ELSE @,
                  !.late_moves = IF S.request # "CONTINUE" /\ new_pos # S.player_pos
                                 THEN @ + 1 ELSE @]

\* on_key_press without the test of the mode: the arrow keys act in every mode.
on_key_press_any_mode(S, key) ==
    IF InErnm(key)
    THEN [S EXCEPT !.request = RequestOf(key), !.fig_open = FALSE]
    ELSE LET old == S.player_pos
             new == CASE key = "up" -> <<old[1] - 1, old[2]>>
                      [] key = "down" -> <<old[1] + 1, old[2]>>
                      [] key = "left" -> <<old[1], old[2] - 1>>
                      [] key = "right" -> <<old[1], old[2] + 1>>
                      [] OTHER -> NoPos
         IN  IF new = NoPos THEN S
             ELSE IF Walkable(S.area, NonWalkable, new) THEN move_player_to(S, new)
             ELSE S

\* Game.on_key_press of src/game.py.
on_key_press(S, key) ==
    IF InErnm(key)
    THEN [S EXCEPT !.request = RequestOf(key), !.fig_open = FALSE]
    ELSE IF S.mode # "manual"
    THEN CASE key = "p" -> [S EXCEPT !.is_paused = ~S.is_paused]
           [] key = "s" -> [S EXCEPT !.animation_speed =
                               IF @ + SpeedStep > SpeedMax THEN SpeedMax ELSE @ + SpeedStep]
           [] key = "f" -> [S EXCEPT !.animation_speed =
                               IF @ - SpeedStep < SpeedMin THEN SpeedMin ELSE @ - SpeedStep]
           [] OTHER -> S
    ELSE LET old == S.player_pos
             new == CASE key = "up" -> <<old[1] - 1, old[2]>>
                      [] key = "down" -> <<old[1] + 1, old[2]>>
                      [] key = "left" -> <<old[1], old[2] - 1>>
                      [] key = "right" -> <<old[1], old[2] + 1>>
                      [] OTHER -> NoPos
         IN  IF new = NoPos THEN S
             ELSE IF Walkable(S.area, NonWalkable, new) THEN move_player_to(S, new)
             ELSE S

\* The last statement of every run():  if request == 'CONTINUE': plt.show()
\* and then the return to main()'s loop.
RunReturn(S) == [S EXCEPT !.pc = "menu"]

RunEnd(S) == IF S.request = "CONTINUE" THEN [S EXCEPT !.pc = "show"] ELSE RunReturn(S)

\* ---------------------------------------------------------------- greedy
\* Game._get_best_move_greedy: the scan keeps the first neighbour of least
\* distance (dist < min_dist); None when no neighbour qualifies.
RECURSIVE GreedyScan(_, _, _, _)
GreedyScan(S, d, best_move, min_dist) ==
    IF d > Len(AStarDirs) THEN best_move
    ELSE LET n == <<S.player_pos[1] + AStarDirs[d][1], S.player_pos[2] + AStarDirs[d][2]>>
             dist == Abs(n[1] - S.exit_pos[1]) + Abs(n[2] - S.exit_pos[2])
         IN  IF Walkable(S.area, NonWalkable, n) /\ (min_dist < 0 \/ dist < min_dist)
             THEN GreedyScan(S, d + 1, n, dist)
             ELSE GreedyScan(S, d + 1, best_move, min_dist)

get_best_move_greedy(S) == GreedyScan(S, 1, NoPos, -1)

\* The loop condition of run_greedy_ai / GreedyAgent.run.
GreedyTop(S) ==
    IF ~S.is_done /\ S.request = "CONTINUE" THEN [S EXCEPT !.pc = "wait"] ELSE RunEnd(S)

\* Game.run_greedy_ai up to its loop.
GreedyBegin(S) == GreedyTop([S EXCEPT !.mode = "greedy", !.is_done = FALSE])

\* One pass of the loop body of Game.run_greedy_ai, after the pause wait.
GreedyBody(S) ==
    LET next_move == get_best_move_greedy(S)
    IN  IF next_move = NoPos THEN RunEnd(S)
        ELSE [move_player_to(S, next_move) EXCEPT
                !.is_done = (next_move = S.exit_pos), !.pc = "sleep"]

\* GreedyAgent.run: _get_best_move_greedy reads self.game.player.pos, an
\* attribute no Game has, so the first tick raises AttributeError.
GreedyAgentBody(S) == [S EXCEPT !.pc = "crashed"]

\* ------------------------------------------------------------- A* replay
\* Game.run_a_star_ai up to its loop: the path is computed once; "if path:"
\* skips the loop for None and for the empty path.
AStarReplayTop(S) ==
    IF S.path # <<>> THEN [S EXCEPT !.pc = "wait"] ELSE RunEnd(S)

AStarReplayBegin(S) ==
    LET res == a_star_pathfinding(S.area, NonWalkable, S.start_pos, S.exit_pos, FALSE)
    IN  AStarReplayTop([S EXCEPT !.mode = "a_star",
                           !.path = IF res.found THEN res.path ELSE <<>>])

\* One pass of "for move in path", after the pause wait.
AStarReplayBody(S) ==
    [move_player_to(S, Head(S.path)) EXCEPT !.path = Tail(S.path), !.pc = "sleep"]

\* Game.run_manual: the whole run is plt.show().
ManualBegin(S) == [S EXCEPT !.mode = "manual", !.pc = "show"]

\* ---------------------------------------------------------- wall follower
\* moves of _wall_follower_step and of QLearningRunner.run: N, E, S, W.
CompassMoves == << <<-1, 0>>, <<0, 1>>, <<1, 0>>, <<0, -1>> >>

\* The "for i in range(-1, 2)" of _wall_follower_step: left, forward, right;
\* the first walkable candidate is taken.
RECURSIVE WallFollowerScan(_, _)
WallFollowerScan(S, i) ==
    IF i > 1 THEN [S EXCEPT !.player_direction = (S.player_direction + 2) % 4]
    ELSE LET check_dir == (S.player_direction + i + 4) % 4
             n == <<S.player_pos[1] + CompassMoves[check_dir + 1][1],
                    S.player_pos[2] + CompassMoves[check_dir + 1][2]>>
         IN  IF Walkable(S.area, NonWalkable, n)
             THEN move_player_to([S EXCEPT !.player_direction = check_dir], n)
             ELSE WallFollowerScan(S, i + 1)

wall_follower_step(S) == WallFollowerScan(S, -1)

\* The loop condition of WallFollowerAgent.run and of FrontierAgent.run.
AgentTop(S) == IF S.request = "CONTINUE" THEN [S EXCEPT !.pc = "wait"] ELSE RunEnd(S)

WallFollowerBegin(S) ==
    AgentTop([S EXCEPT !.mode = "wall_follower", !.no_new_cells_count = 0])

\* One pass of the loop body of WallFollowerAgent.run, after the pause wait.
WallFollowerBody(S) ==
    IF S.request # "CONTINUE" THEN RunEnd(S)
    ELSE LET prev_visited_count == Cardinality(S.visited_cells)
             T == wall_follower_step(S)
             count == IF Cardinality(T.visited_cells) = prev_visited_count
                      THEN S.no_new_cells_count + 1 ELSE 0
             U == [T EXCEPT !.no_new_cells_count = count]
         IN  IF count > S.area.rows * S.area.cols THEN RunEnd(U)
             ELSE [U EXCEPT !.pc = "sleep"]

\* --------------------------------------------------------------- frontier
\* FrontierAgent._find_frontier.
find_frontier(S) ==
    {n \in Cells(S.area.rows, S.area.cols) :
        /\ \E v \in S.visited_cells : Abs(v[1] - n[1]) + Abs(v[2] - n[2]) = 1
        /\ n \notin S.visited_cells
        /\ Walkable(S.area, NonWalkable, n)}

\* The candidates of min(frontier, key=distance to player_pos): which of the
\* nearest cells min returns depends on the set's iteration order.
ClosestFrontier(S) ==
    LET frontier == find_frontier(S)
    IN  {c \in frontier : \A o \in frontier :
            heuristic_distance(S.player_pos, c) <= heuristic_distance(S.player_pos, o)}

FrontierBegin(S) == AgentTop([S EXCEPT !.mode = "frontier_exploration"])

\* One pass of the outer loop body of FrontierAgent.run, after the pause wait,
\* up to the first plt.pause of the replay; closest is the cell min returned
\* (NoPos when the frontier is empty).
FrontierBody(S, closest) ==
    IF S.request # "CONTINUE" THEN RunEnd(S)
    ELSE IF closest = NoPos THEN RunEnd(S)
    ELSE LET res == a_star_pathfinding(S.area, NonWalkable, S.player_pos, closest, FALSE)
         IN  IF ~res.found \/ res.path = <<>> THEN RunEnd(S)
             ELSE [move_player_to(S, Head(res.path)) EXCEPT
                      !.path = Tail(res.path), !.pc = "sleep"]

\* After plt.pause in "for move in path_to_frontier": return on a request,
\* else the next move of the path, else back to the outer loop.
FrontierAfterPause(S) ==
    IF S.request # "CONTINUE" THEN RunReturn(S)
    ELSE IF S.path # <<>>
    THEN [move_player_to(S, Head(S.path)) EXCEPT !.path = Tail(S.path), !.pc = "sleep"]
    ELSE AgentTop(S)

\* ------------------------------------------------------------- Q-learning
\* Q-values and rewards in units of 0.0001, epsilon in units of 0.001.
Actions == {0, 1, 2, 3}

RewardWall == -50000
RewardExit == 100000
RewardRevisit == -2000
RewardNew == 10000
RewardTurn == -1000
RewardStraight == 500
EpsilonInit == 1000
EpsilonDecayRate == 1
MinEpsilon == 10

Max2(a, b) == IF a > b THEN a ELSE b

\* QLearningAgent.get_q_value.
get_q_value(q_table, state, action) ==
    IF <<state, action>> \in DOMAIN q_table THEN q_table[<<state, action>>] ELSE 0

\* max over the actions of the stored values at state.
MaxQ(q_table, state) ==
    LET vals == {get_q_value(q_table, state, a) : a \in Actions}
    IN  CHOOSE v \in vals : \A w \in vals : w <= v

\* get_action that returns the first action of greatest value only.
get_action_first_best(q_table, state, epsilon) ==
    (IF epsilon > 0 THEN Actions ELSE {})
    \cup (IF epsilon < EpsilonInit
          THEN LET best == {a \in Actions : get_q_value(q_table, state, a) = MaxQ(q_table, state)}
               IN  {CHOOSE a \in best : \A b \in best : a <= b}
          ELSE {})

\* QLearningAgent.get_action: the actions it can return.  random.uniform(0, 1)
\* < epsilon can hold when epsilon > 0 and can fail when epsilon < 1.
get_action(q_table, state, epsilon) ==
    (IF epsilon > 0 THEN Actions ELSE {})
    \cup (IF epsilon < EpsilonInit
          THEN {a \in Actions : get_q_value(q_table, state, a) = MaxQ(q_table, state)}
          ELSE {})

\* update that starts a new table with the entry it writes.
update_forgets(q_table, state, action, reward, next_state) ==
    LET current_q == get_q_value(q_table, state, action)
        max_next_q == MaxQ(q_table, next_state)
        new_q == current_q + (reward + (99 * max_next_q) \div 100 - current_q) \div 10
    IN  (<<state, action>> :> new_q)

\* QLearningAgent.update with learning_rate 0.1 and discount_factor 0.99
\* (fixed point: the products are truncated to the unit).
update(q_table, state, action, reward, next_state) ==
    LET current_q == get_q_value(q_table, state, action)
        max_next_q == MaxQ(q_table, next_state)
        new_q == current_q + (reward + (99 * max_next_q) \div 100 - current_q) \div 10
    IN  (<<state, action>> :> new_q) @@ q_table

\* decay_epsilon without the floor of min_epsilon.
decay_epsilon_unfloored(epsilon) == epsilon - EpsilonDecayRate

\* QLearningAgent.decay_epsilon.
decay_epsilon(epsilon) == Max2(MinEpsilon, epsilon - EpsilonDecayRate)

\* After the episode loop: training saves the table, and save_q_table raises
\* (os.makedirs(os.path.dirname('q_table.pkl')) is os.makedirs('')); otherwise
\* player_pos and visited_cells are reset and run() ends.
QAfterEpisodes(S) ==
    IF S.training_mode THEN [S EXCEPT !.pc = "crashed"]
    ELSE RunEnd([S EXCEPT !.player_pos = S.start_pos, !.visited_cells = {S.start_pos}])

RECURSIVE QStepTop(_), QEpisodeEnd(_), QEpisodeTop(_)

\* "for step in range(steps_per_episode)" with its first statement.
QStepTop(S) ==
    IF S.step < S.steps_per_episode /\ S.request = "CONTINUE"
    THEN [S EXCEPT !.pc = "wait"]
    ELSE QEpisodeEnd(S)

\* The end of an episode's body: decay, the request check, the next episode.
QEpisodeEnd(S) ==
    LET D == IF S.training_mode
             THEN [S EXCEPT !.epsilon = decay_epsilon(S.epsilon)] ELSE S
    IN  IF D.request # "CONTINUE" THEN QAfterEpisodes(D)
        ELSE QEpisodeTop([D EXCEPT !.episode = @ + 1])

\* "for episode in range(...)" with the reset that starts an episode.
QEpisodeTop(S) ==
    IF S.episode < (IF S.training_mode THEN Episodes ELSE 1)
    THEN QStepTop([S EXCEPT !.player_pos = S.start_pos,
                            !.visited_cells = {S.start_pos},
                            !.prev_action = -1, !.step = 0])
    ELSE QAfterEpisodes(S)

\* (mutant: the FileNotFoundError of load_q_table is not caught.)
QBeginUncaught(S) ==
    LET M == [S EXCEPT !.mode = "q_learning"]
    IN  IF ~S.training_mode /\ ~S.q_file.exists THEN [M EXCEPT !.pc = "crashed"]
        ELSE QEpisodeTop([M EXCEPT !.episode = 0,
                !.q_table = IF S.training_mode THEN S.q_table ELSE S.q_file.table])

\* QLearningRunner.run up to its first step; evaluation needs the table file.
QBegin(S) ==
    LET M == [S EXCEPT !.mode = "q_learning"]
    IN  IF ~S.training_mode /\ ~S.q_file.exists THEN RunReturn(M)
        ELSE QEpisodeTop([M EXCEPT !.episode = 0,
                !.q_table = IF S.training_mode THEN S.q_table ELSE S.q_file.table])

\* (mutant: the episode is not ended at the exit.)
QAfterStepNoBreak(S) == QStepTop([S EXCEPT !.step = @ + 1])

\* After a step's move (and its plt.pause): the exit ends the episode.
QAfterStep(S) ==
    IF S.player_pos = S.exit_pos THEN QEpisodeEnd(S)
    ELSE QStepTop([S EXCEPT !.step = @ + 1])

\* (mutant: update is called in evaluation mode too.)
LearntAlways(S, state, action, step_reward, next_state) ==
    update(S.q_table, state, action, step_reward, next_state)

\* "if training_mode: self.agent.update(...)": the table after a step.
Learnt(S, state, action, step_reward, next_state) ==
    IF S.training_mode
    THEN update(S.q_table, state, action, step_reward, next_state)
    ELSE S.q_table

\* QStep without the wall penalty: a blocked action is rewarded as a step onto
\* a visited cell.
QStepNoWallPenalty(S, action) ==
    LET state == <<S.player_pos, S.visited_cells>>
        direction_reward ==
            IF S.prev_action = -1 THEN 0
            ELSE IF action # S.prev_action THEN RewardTurn ELSE RewardStraight
        n == <<S.player_pos[1] + CompassMoves[action + 1][1],
               S.player_pos[2] + CompassMoves[action + 1][2]>>
        blocked == ~Walkable(S.area, NonWalkable, n)
        base == IF blocked THEN RewardRevisit
                ELSE IF n = S.exit_pos THEN RewardExit
                ELSE IF n \in S.visited_cells THEN RewardRevisit
                ELSE RewardNew
        next_player_pos == IF blocked THEN S.player_pos ELSE n
        step_reward == base + direction_reward
        next_state == <<next_player_pos, S.visited_cells \cup {next_player_pos}>>
        learnt == Learnt(S, state, action, step_reward, next_state)
        T == move_player_to([S EXCEPT !.prev_action = action, !.q_table = learnt],
                            next_player_pos)
    IN  IF S.episode > Episodes - 5 \/ ~S.training_mode
        THEN [T EXCEPT !.pc = "sleep"]
        ELSE QAfterStep(T)

\* One step of an episode, after the pause wait, with the action get_action
\* returned.
QStep(S, action) ==
    LET state == <<S.player_pos, S.visited_cells>>
        direction_reward ==
            IF S.prev_action = -1 THEN 0
            ELSE IF action # S.prev_action THEN RewardTurn ELSE RewardStraight
        n == <<S.player_pos[1] + CompassMoves[action + 1][1],
               S.player_pos[2] + CompassMoves[action + 1][2]>>
        blocked == ~Walkable(S.area, NonWalkable, n)
        base == IF blocked THEN RewardWall
                ELSE IF n = S.exit_pos THEN RewardExit
                ELSE IF n \in S.visited_cells THEN RewardRevisit
                ELSE RewardNew
        next_player_pos == IF blocked THEN S.player_pos ELSE n
        step_reward == base + direction_reward
        next_state == <<next_player_pos, S.visited_cells \cup {next_player_pos}>>
        learnt == Learnt(S, state, action, step_reward, next_state)
        T == move_player_to([S EXCEPT !.prev_action = action, !.q_table = learnt],
                            next_player_pos)
    IN  IF S.episode > Episodes - 5 \/ ~S.training_mode
        THEN [T EXCEPT !.pc = "sleep"]
        ELSE QAfterStep(T)

\* The agent's constructor, right after Game.__init__.
AgentInit(S, agent) ==
    CASE agent = "WallFollowerAgent" ->
            [S EXCEPT !.visited_cells = {S.player_pos}, !.player_direction = 2]
      [] agent = "FrontierAgent" -> [S EXCEPT !.visited_cells = {S.player_pos}]
      [] agent \in {"QLearningTrain", "QLearningTest"} ->
            [S EXCEPT !.q_table = <<>>, !.epsilon = EpsilonInit, !.prev_action = -1,
                      !.training_mode = (agent = "QLearningTrain")]
      [] OTHER -> S

\* The runs the menu starts: Game.run_manual, Game.run_greedy_ai and
\* Game.run_a_star_ai of src/game.py, GreedyAgent, WallFollowerAgent and
\* FrontierAgent, and QLearningRunner in training and in evaluation mode.
Agents == {"manual", "greedy_ai", "GreedyAgent", "a_star_ai", "WallFollowerAgent",
           "FrontierAgent", "QLearningTrain", "QLearningTest"}

\* ------------------------------------------------- specification: the runs
\* A persisted table: at the start state of the maps (player on (0, 0), only
\* that cell visited) going east is worth 1.0, every other action 0.
TrainedTable == (<< << <<0, 0>>, {<<0, 0>>} >>, 1 >> :> 10000)

\* The Q-table file main() finds: none, or one holding TrainedTable.
QFiles == {[exists |-> FALSE, table |-> <<>>], [exists |-> TRUE, table |-> TrainedTable]}

InitSim ==
    /\ \E area \in ActiveMaps, q_file \in QFiles : sim = SimMenu(area, q_file)
    /\ search = SearchIdle
    /\ gen = GenNone
    /\ call = CallNone

\* main(): "if hasattr(Game, 'animation_speed_override'):
\*              game.animation_speed = Game.animation_speed_override";
\* the class attribute exists once choice 'a' has stored a speed in call.
ApplyOverride(S) ==
    IF call.op = "animation_speed_override"
    THEN [S EXCEPT !.animation_speed = call.value]
    ELSE S

\* main(): a choice 1..7 builds a Game on active_map and the agent on it.
MenuRunOf(agents) ==
    /\ sim.pc = "menu"
    /\ sim.runs < MaxRuns
    /\ \E agent \in agents :
          LET G == GameInit(sim, agent)
          IN  sim' = IF G.pc = "crashed" THEN G
                     ELSE AgentInit(ApplyOverride(G), agent)
    /\ UNCHANGED <<search, gen, call>>

MenuRun == MenuRunOf(Agents)

\* main(): choice 'n' or 'l' replaces active_map.
MenuNewMap ==
    /\ sim.pc = "menu"
    /\ sim.runs < MaxRuns
    /\ \E area \in ActiveMaps : sim' = [sim EXCEPT !.area = area, !.pristine = area]
    /\ UNCHANGED <<search, gen, call>>

\* main(): choice 'e'.
MenuExit ==
    /\ sim.pc = "menu"
    /\ sim' = [sim EXCEPT !.pc = "exited"]
    /\ UNCHANGED <<search, gen, call>>

\* main() lines 113-133: the run method of the chosen agent, up to its first
\* wait.
RunBegin ==
    /\ sim.pc = "start"
    /\ sim' = CASE sim.agent = "manual" -> ManualBegin(sim)
                [] sim.agent \in {"greedy_ai", "GreedyAgent"} -> GreedyBegin(sim)
                [] sim.agent = "a_star_ai" -> AStarReplayBegin(sim)
                [] sim.agent = "WallFollowerAgent" -> WallFollowerBegin(sim)
                [] sim.agent = "FrontierAgent" -> FrontierBegin(sim)
                [] OTHER -> QBegin(sim)
    /\ UNCHANGED <<search, gen, call>>

\* "while self.is_paused: plt.pause(0.1)" is left when the flag is false.
PauseWaitOver(agents) ==
    /\ sim.pc = "wait"
    /\ ~sim.is_paused
    /\ sim.agent \in agents

GreedyTick ==
    /\ PauseWaitOver({"greedy_ai"})
    /\ sim' = GreedyBody(sim)
    /\ UNCHANGED <<search, gen, call>>

GreedyAgentTick ==
    /\ PauseWaitOver({"GreedyAgent"})
    /\ sim' = GreedyAgentBody(sim)
    /\ UNCHANGED <<search, gen, call>>

AStarTick ==
    /\ PauseWaitOver({"a_star_ai"})
    /\ sim' = AStarReplayBody(sim)
    /\ UNCHANGED <<search, gen, call>>

WallFollowerTick ==
    /\ PauseWaitOver({"WallFollowerAgent"})
    /\ sim' = WallFollowerBody(sim)
    /\ UNCHANGED <<search, gen, call>>

FrontierTick ==
    /\ PauseWaitOver({"FrontierAgent"})
    /\ \E closest \in (IF find_frontier(sim) = {} THEN {NoPos} ELSE ClosestFrontier(sim)) :
          sim' = FrontierBody(sim, closest)
    /\ UNCHANGED <<search, gen, call>>

QTick ==
    /\ PauseWaitOver({"QLearningTrain", "QLearningTest"})
    /\ \E action \in get_action(sim.q_table, <<sim.player_pos, sim.visited_cells>>,
                                sim.epsilon) :
          sim' = QStep(sim, action)
    /\ UNCHANGED <<search, gen, call>>

\* plt.pause(self.animation_speed) returns and the loop goes on.
AfterPause ==
    /\ sim.pc = "sleep"
    /\ sim' = CASE sim.agent = "greedy_ai" -> GreedyTop(sim)
                [] sim.agent = "a_star_ai" -> AStarReplayTop(sim)
                [] sim.agent = "WallFollowerAgent" -> AgentTop(sim)
                [] sim.agent = "FrontierAgent" -> FrontierAfterPause(sim)
                [] OTHER -> QAfterStep(sim)
    /\ UNCHANGED <<search, gen, call>>

\* The figure delivers events only while plt.pause or plt.show runs its loop.
InEventLoop ==
    /\ sim.fig_open
    /\ \/ sim.pc \in {"sleep", "show"}
       \/ sim.pc = "wait" /\ sim.is_paused

KeyPress ==
    /\ InEventLoop
    /\ sim.keys < MaxKeys
    /\ \E key \in Keys : sim' = [on_key_press(sim, key) EXCEPT !.keys = @ + 1]
    /\ UNCHANGED <<search, gen, call>>

\* The user closes the window during plt.show().
CloseWindow ==
    /\ sim.pc = "show"
    /\ sim.fig_open
    /\ sim' = [sim EXCEPT !.fig_open = FALSE]
    /\ UNCHANGED <<search, gen, call>>

\* plt.show() returns once the figure is closed; run() returns to main().
ShowReturns ==
    /\ sim.pc = "show"
    /\ ~sim.fig_open
    /\ sim' = RunReturn(sim)
    /\ UNCHANGED <<search, gen, call>>

\* The steps the program takes by itself (no user input).
ProgramStep ==
    \/ RunBegin
    \/ GreedyTick
    \/ GreedyAgentTick
    \/ AStarTick
    \/ WallFollowerTick
    \/ FrontierTick
    \/ QTick
    \/ AfterPause
    \/ ShowReturns

Next ==
    \/ MenuRun
    \/ MenuNewMap
    \/ MenuExit
    \/ ProgramStep
    \/ KeyPress
    \/ CloseWindow

Spec == InitSim /\ [][Next]_vars

\* The interpreter keeps running the program.
FairSpec == Spec /\ WF_vars(ProgramStep)

\* ------------------------------------------------------ claims on the runs
\* An agent run is between its ticks: in a pause wait or in a tick's delay.
AtTickBoundary == sim.pc \in {"wait", "sleep"}

RunOver == sim.pc \in {"menu", "show", "crashed", "exited"}

CoverageAgents == {"WallFollowerAgent", "FrontierAgent", "QLearningTrain", "QLearningTest"}

\* C5: in every agent run loop, once the control signal is no longer
\* Continue, at most the move of the tick in progress is applied and no later
\* tick moves the player.
C5_NoMovesAfterSignal == sim.late_moves <= 1

\* Supporting lemma for C5: the loops other than the A* replay apply no move
\* at all once the signal is set.
NoLateMovesOutsideAStarReplay == sim.agent # "a_star_ai" => sim.late_moves = 0

\* C6: a control signal set while an agent run is paused still leads to the
\* end of the run loop, with no further TogglePause.
C6_PausedRunStillTerminates ==
    (AtTickBoundary /\ sim.is_paused /\ sim.request # "CONTINUE") ~> RunOver

\* Supporting lemma for C6: a signal set while the run is not paused does end
\* the run loop.
UnpausedSignalTerminates ==
    (AtTickBoundary /\ ~sim.is_paused /\ sim.request # "CONTINUE") ~> RunOver

\* Supporting lemma for C6: the key that sets the signal closes the figure, so
\* no later key (no TogglePause) reaches the run.
SignalClosesFigure ==
    (AtTickBoundary /\ sim.request # "CONTINUE") => (~sim.fig_open /\ ~InEventLoop)

\* C7: while the paused flag is true during an agent run, the player
\* position, the grid and the visited set do not change.
C7_PausedChangesNothing ==
    [][(AtTickBoundary /\ sim.is_paused /\ sim'.is_paused)
        => /\ sim'.player_pos = sim.player_pos
           /\ sim'.area = sim.area
           /\ sim'.visited_cells = sim.visited_cells]_vars

\* Supporting lemma for C7: the loops other than Q-learning change nothing
\* while paused, and no loop changes the grid while paused.
PausedFreezesOutsideQLearning ==
    [][(AtTickBoundary /\ sim.is_paused /\ sim'.is_paused)
        => /\ sim'.area = sim.area
           /\ sim.agent \notin {"QLearningTrain", "QLearningTest"}
                 => /\ sim'.player_pos = sim.player_pos
                    /\ sim'.visited_cells = sim.visited_cells]_vars

\* C8: every run the menu starts on the active map starts fresh: the player
\* at the map's original start, the Exit tag on the grid, no Visited tag.
C8_RunStartsFresh ==
    sim.pc = "start"
    => /\ sim.player_pos = find_char(sim.pristine, "P")
       /\ CellsWith(sim.area, "E") # {}
       /\ CellsWith(sim.area, "V") = {}

\* Supporting lemma for C8: the first run on a map does start fresh.
FirstRunStartsFresh ==
    (sim.pc = "start" /\ sim.runs = 1) => sim.area = sim.pristine

\* C9: at every tick boundary of every run exactly one cell carries the
\* Player tag, and it is the cell at the player position.
C9_OnePlayerTagAtPlayer == AtTickBoundary => CellsWith(sim.area, "P") = {sim.player_pos}

\* Supporting lemma for C9: it holds in first runs of the loops other than
\* Q-learning.
OnePlayerTagOutsideQLearning ==
    (AtTickBoundary /\ sim.runs = 1 /\ sim.agent \notin {"QLearningTrain", "QLearningTest"})
    => CellsWith(sim.area, "P") = {sim.player_pos}

\* C10: in a run of WallFollower, FrontierExplorer or Q-learning the visited
\* set contains the player's position after every applied move.
C10_VisitedHoldsPlayer ==
    (AtTickBoundary /\ sim.agent \in CoverageAgents) => sim.player_pos \in sim.visited_cells

\* Supporting lemma for C10: the visited set is {start} at every tick boundary.
VisitedStaysStart ==
    (AtTickBoundary /\ sim.agent \in CoverageAgents) => sim.visited_cells = {sim.start_pos}

\* ------------------------------------------- specification: one single run
\* One agent run from construction to its end with no key pressed, on every
\* grid of MaxRows x MaxCols cells with at most MaxWalls walls and on every
\* wall-free room of up to RoomRows x RoomCols cells, for every placement of
\* P and E.
Placed(area, player, exit) ==
    [area EXCEPT !.grid = [p \in DOMAIN area.grid |->
        IF p = player THEN "P" ELSE IF p = exit THEN "E" ELSE area.grid[p]]]

RunAreas ==
    {Placed(area, player, exit) :
        area \in SearchAreas \cup {Area(M, N, ".") : M \in 1..RoomRows, N \in 1..RoomCols},
        player \in Cells(RoomRows + MaxRows, RoomCols + MaxCols),
        exit \in Cells(RoomRows + MaxRows, RoomCols + MaxCols)}

\* The agents whose runs read no file.
RunAgents == {"greedy_ai", "GreedyAgent", "a_star_ai", "WallFollowerAgent", "FrontierAgent"}

InitRun ==
    /\ \E area \in RunAreas, agent \in RunAgents :
          /\ Cardinality(CellsWith(area, "P")) = 1
          /\ Cardinality(CellsWith(area, "E")) = 1
          /\ Cardinality(CellsWith(area, "X")) <= MaxWalls
          /\ LET G == GameInit(SimMenu(area, [exists |-> FALSE, table |-> <<>>]), agent)
             IN  sim = AgentInit(G, agent)
    /\ search = SearchIdle
    /\ gen = GenNone
    /\ call = CallNone

NextRun ==
    \/ RunBegin
    \/ GreedyTick
    \/ GreedyAgentTick
    \/ AStarTick
    \/ WallFollowerTick
    \/ FrontierTick
    \/ AfterPause

SpecRun == InitRun /\ [][NextRun]_vars

\* The run keeps running.
FairSpecRun == SpecRun /\ WF_vars(NextRun)

\* ------------------------------------------------ claims on the single run
Adjacent(p, q) == Abs(p[1] - q[1]) + Abs(p[2] - q[2]) = 1

\* C11: an uninterrupted A* run on a grid whose exit is reachable moves the
\* player one path cell per tick, not onto the start cell first, ends with
\* the player on the exit after as many moves as the shortest-path distance;
\* when there is no path the player is never moved.
C11_AStarReplayOptimal ==
    (sim.agent = "a_star_ai" /\ sim.keys = 0 /\ sim.pc \in {"wait", "sleep", "show"})
    => LET d == BFSDist(sim.area, NonWalkable, sim.start_pos, sim.exit_pos)
       IN  IF d >= 0
           THEN /\ sim.moves + Len(sim.path) = d
                /\ sim.moves = 0 => sim.player_pos = sim.start_pos
                /\ sim.path # <<>> => Adjacent(sim.player_pos, Head(sim.path))
                /\ sim.pc = "show" => (sim.player_pos = sim.exit_pos /\ sim.path = <<>>)
           ELSE /\ sim.pc = "show"
                /\ sim.moves = 0
                /\ sim.player_pos = sim.start_pos

\* An A* run that has ended on the exit after a detour around walls.
C11_Witness ==
    /\ sim.agent = "a_star_ai"
    /\ sim.pc = "show"
    /\ sim.player_pos = sim.exit_pos
    /\ sim.moves > heuristic_distance(sim.start_pos, sim.exit_pos)

\* An A* run that has ended without a move: the walls cut the exit off.
AStarReplayNoPathReached ==
    /\ sim.agent = "a_star_ai"
    /\ sim.pc = "show"
    /\ sim.moves = 0

GreedyAgents == {"greedy_ai", "GreedyAgent"}

WallFree(area) == CellsWith(area, "X") = {}

\* Every move so far has reduced the Manhattan distance to the exit by one,
\* and a run that is over has ended on the exit.
ManhattanRun ==
    /\ sim.moves + heuristic_distance(sim.player_pos, sim.exit_pos)
          = heuristic_distance(sim.start_pos, sim.exit_pos)
    /\ sim.pc \notin {"wait", "sleep"} => sim.player_pos = sim.exit_pos

\* C12: on every grid with no walls, for every start and exit, the Greedy
\* agent reaches the exit after exactly |drow| + |dcol| moves, each move
\* reducing the Manhattan distance to the exit by one.
C12_GreedyManhattan ==
    (sim.agent \in GreedyAgents /\ WallFree(sim.area) /\ sim.keys = 0 /\ sim.pc # "start")
    => ManhattanRun

\* Supporting lemma for C12: Game.run_greedy_ai does so.
GameGreedyManhattan ==
    (sim.agent = "greedy_ai" /\ WallFree(sim.area) /\ sim.keys = 0 /\ sim.pc # "start")
    => ManhattanRun

\* Game.run_greedy_ai has ended on the exit of the 3 x 3 room after 4 moves
\* from (0, 0) to (2, 2).
GameGreedyCornerToCorner ==
    /\ sim.agent = "greedy_ai"
    /\ sim.area.rows = 3 /\ sim.area.cols = 3
    /\ sim.start_pos = <<0, 0>> /\ sim.exit_pos = <<2, 2>>
    /\ sim.pc = "show" /\ sim.moves = 4 /\ sim.player_pos = sim.exit_pos

\* C13: every Greedy run in which the control signal stays Continue ends by
\* itself, on every grid.
C13_GreedyTerminates ==
    (sim.agent \in GreedyAgents /\ sim.pc = "start") ~> RunOver

\* Supporting lemma for C13: on the grids with no walls the Greedy runs end.
GreedyTerminatesWallFree ==
    (sim.agent \in GreedyAgents /\ sim.pc = "start" /\ WallFree(sim.area)) ~> RunOver

\* The cells the player has been on in a run that began on a grid with no
\* V tag: _move_player_to tags the cell it leaves V and the cell it enters P.
Occupied(area) == CellsWith(area, "V") \cup CellsWith(area, "P")

\* C14: on every wall-free rectangular room an uninterrupted WallFollower run
\* has moved the player onto every walkable cell when it declares coverage
\* complete.
C14_WallFollowerCoversRoom ==
    (sim.agent = "WallFollowerAgent" /\ WallFree(sim.area) /\ sim.keys = 0 /\ sim.pc = "show")
    => Occupied(sim.area) = Cells(sim.area.rows, sim.area.cols)

\* Supporting lemma for C14: the corridors (one row or one column) are
\* covered.
WallFollowerCoversCorridor ==
    (sim.agent = "WallFollowerAgent" /\ WallFree(sim.area) /\ sim.keys = 0 /\ sim.pc = "show"
        /\ (sim.area.rows = 1 \/ sim.area.cols = 1))
    => Occupied(sim.area) = Cells(sim.area.rows, sim.area.cols)

\* C15: when an uninterrupted FrontierExplorer run has ended, every walkable
\* cell reachable from the start has been occupied by the player and is in
\* the visited set, and the frontier is empty.
C15_FrontierCoverageComplete ==
    (sim.agent = "FrontierAgent" /\ sim.keys = 0 /\ sim.pc = "show")
    => /\ ReachFrom(sim.area, NonWalkable, {sim.start_pos}) \subseteq Occupied(sim.area)
       /\ ReachFrom(sim.area, NonWalkable, {sim.start_pos}) \subseteq sim.visited_cells
       /\ find_frontier(sim) = {}

\* Supporting lemma for C15: an uninterrupted FrontierExplorer run makes at
\* most one move, and ends with an empty frontier only when the start cell
\* has no walkable neighbour.
FrontierStopsAfterOneMove ==
    (sim.agent = "FrontierAgent" /\ sim.keys = 0)
    => /\ sim.moves <= 1
       /\ (sim.pc = "show" /\ find_frontier(sim) = {}) => sim.moves = 0

\* ------------------------------------------------- claims on Q-learning runs
\* The actions of maximal stored value at state.
MaxValued(q_table, state) ==
    {a \in Actions : \A b \in Actions :
        get_q_value(q_table, state, b) <= get_q_value(q_table, state, a)}

\* A step of an evaluation run: the pause wait is left by the step's action.
EvalStep ==
    /\ sim.agent = "QLearningTest"
    /\ sim.pc = "wait"
    /\ sim'.pc # "wait"

\* C16: in evaluation mode with a persisted table exactly one episode is run
\* and every action taken is an action of maximal stored value for the
\* current state.
C16_EvalExploitsOnly ==
    [][EvalStep => /\ sim.episode = 0
                   /\ sim'.prev_action \in
                        MaxValued(sim.q_table, <<sim.player_pos, sim.visited_cells>>)]_vars

\* Supporting lemma for C16: evaluation runs one episode, on the loaded table,
\* with the exploration rate the constructor set (1.0).
EvalOneEpisodeEpsilonOne ==
    (sim.agent = "QLearningTest" /\ AtTickBoundary)
    => /\ sim.episode = 0
       /\ sim.q_table = sim.q_file.table
       /\ sim.epsilon = EpsilonInit

\* C17: evaluation requested with no persisted Q-table aborts with no
\* exception escaping: no episode step is run, and the player position, the
\* grid, the visited set and the Q-table are left unchanged.
C17_EvalWithoutTableAborts ==
    [][(sim.pc = "start" /\ sim.agent = "QLearningTest" /\ ~sim.q_file.exists)
        => /\ sim'.pc = "menu"
           /\ sim'.moves = 0
           /\ sim'.player_pos = sim.player_pos
           /\ sim'.area = sim.area
           /\ sim'.visited_cells = sim.visited_cells
           /\ sim'.q_table = sim.q_table]_vars

\* main() is back at its menu after an evaluation run that found no table.
C17_Witness ==
    /\ sim.pc = "menu"
    /\ sim.agent = "QLearningTest"
    /\ ~sim.q_file.exists
    /\ sim.runs >= 1
    /\ sim.moves = 0

\* ============================================================ map loading
\* A map file is a sequence of lines, a line a sequence of characters.
FileChars == {" ", "."}

SeqsUpTo(S, n) == UNION {[1 .. k -> S] : k \in 0 .. n}

MapLines == SeqsUpTo(FileChars, MaxLineLen)

MapFiles == SeqsUpTo(MapLines, MaxLines)

\* str.rstrip: the line without its trailing white space.
RECURSIVE rstrip(_)
rstrip(line) ==
    IF line # <<>> /\ line[Len(line)] = " " THEN rstrip(SubSeq(line, 1, Len(line) - 1))
    ELSE line

\* (mutant: every blank line is dropped, not only the trailing ones.)
DropBlankLines(lines) == SelectSeq(lines, LAMBDA l : l # <<>>)

\* "while lines and not lines[-1]: lines.pop()".
RECURSIVE PopBlankLines(_)
PopBlankLines(lines) ==
    IF lines # <<>> /\ lines[Len(lines)] = <<>>
    THEN PopBlankLines(SubSeq(lines, 1, Len(lines) - 1))
    ELSE lines

\* str.split: the maximal runs of non-space characters, as strings.
RECURSIVE SplitFrom(_, _, _, _)
SplitFrom(line, i, word, words) ==
    IF i > Len(line) THEN (IF word = "" THEN words ELSE Append(words, word))
    ELSE IF line[i] = " "
    THEN SplitFrom(line, i + 1, "", IF word = "" THEN words ELSE Append(words, word))
    ELSE SplitFrom(line, i + 1, word \o line[i], words)

split(line) == SplitFrom(line, 1, "", <<>>)

\* load_map_from_file on a file with these lines: the Area, or None (ok FALSE)
\* after a ValueError.
load_map_from_file(file) ==
    LET lines == PopBlankLines([i \in 1 .. Len(file) |-> rstrip(file[i])])
        grid == [i \in 1 .. Len(lines) |-> split(lines[i])]
    IN  IF grid = <<>> THEN [ok |-> FALSE]
        ELSE IF \E i \in 1 .. Len(grid) : Len(grid[i]) # Len(grid[1]) THEN [ok |-> FALSE]
        ELSE [ok |-> TRUE, area |-> from_list(grid)]

\* main() at its menu, choice 'l' made and a file chosen in the dialog.
InitLoad ==
    /\ sim = SimMenu(from_list(MapOpen), [exists |-> FALSE, table |-> <<>>])
    /\ \E file \in MapFiles : call = [op |-> "askopenfilename", file |-> file]
    /\ search = SearchIdle
    /\ gen = GenNone

\* main(): the rest of choice 'l': the file is loaded, and active_map is
\* replaced when load_map_from_file returned an Area.
MenuLoad ==
    /\ sim.pc = "menu"
    /\ call.op = "askopenfilename"
    /\ LET loaded_map == load_map_from_file(call.file)
       IN  /\ call' = [op |-> "load_map_from_file", file |-> call.file,
                       ok |-> loaded_map.ok]
           /\ sim' = IF loaded_map.ok
                     THEN [sim EXCEPT !.area = loaded_map.area,
                                      !.pristine = loaded_map.area]
                     ELSE sim
    /\ UNCHANGED <<search, gen>>

NextLoad == MenuLoad

SpecLoad == InitLoad /\ [][NextLoad]_vars

\* ------------------------------------------------- claims on map loading
\* The number of cells of a line: its maximal runs of non-space characters.
CellCount(line) ==
    Cardinality({i \in 1 .. Len(line) :
        line[i] # " " /\ (i = Len(line) \/ line[i + 1] = " ")})

\* The rows of a file: its lines up to the last one that has a cell.
RowLines(file) ==
    {i \in 1 .. Len(file) : \E j \in i .. Len(file) : CellCount(file[j]) > 0}

\* Two rows of different cell counts (a blank line between rows has none).
InconsistentRows(file) ==
    \E i, j \in RowLines(file) : CellCount(file[i]) # CellCount(file[j])

\* C18: loading a map whose rows do not all have the same number of cells
\* (a blank line between rows included) fails, and the menu's active map is
\* afterwards the same map with the same contents as before.
C18_MalformedMapRejected ==
    [][(call'.op = "load_map_from_file" /\ InconsistentRows(call'.file))
        => (~call'.ok /\ sim' = sim)]_vars

\* A load that has failed on a file with a blank line between two rows.
C18_Witness ==
    /\ call.op = "load_map_from_file"
    /\ ~call.ok
    /\ Len(call.file) = 3
    /\ CellCount(call.file[1]) = CellCount(call.file[3])
    /\ CellCount(call.file[1]) > 0
    /\ CellCount(call.file[2]) = 0

\* Supporting lemma for C18: a load fails exactly when the file has no rows or
\* rows of different cell counts.
LoadFailsIffMalformed ==
    call.op = "load_map_from_file"
    => (~call.ok <=> (RowLines(call.file) = {} \/ InconsistentRows(call.file)))

\* A load that has replaced the active map.
LoadSucceeded ==
    /\ call.op = "load_map_from_file"
    /\ call.ok
    /\ sim.area.rows = 2 /\ sim.area.cols = 2
    /\ sim.area.grid[<<1, 1>>] = "."

\* ============================================================ Area accessors
\* One Area object and the calls a client makes on it; call holds the object
\* (area), the arguments of the last call and what it did.
CellValues == {".", "X"}

\* Arguments a client can pass: the indices of the grid and one before and
\* one after them on each axis.
Coords(n) == -1 .. n

AreaCall(op, area, row, col, value, raised, result, calls) ==
    [op |-> op, area |-> area, row |-> row, col |-> col, value |-> value,
     raised |-> raised, result |-> result, calls |-> calls]

\* Area(M, N, default_value) constructed.
InitArea ==
    /\ \E M \in 1 .. AreaRows, N \in 1 .. AreaCols, default_value \in CellValues :
        call = AreaCall("Area", Area(M, N, default_value), 0, 0, default_value,
                        FALSE, "None", 0)
    /\ search = SearchIdle
    /\ gen = GenNone
    /\ sim = SimNone

\* area.set_cell(row, col, value): raises before the assignment when the
\* coordinates fail the range check.
CallSetCell ==
    /\ call.op \in {"Area", "set_cell", "get_cell"}
    /\ call.calls < AreaCalls
    /\ \E row \in Coords(call.area.rows), col \in Coords(call.area.cols),
          value \in CellValues :
        call' = AreaCall("set_cell", set_cell(call.area, row, col, value),
                         row, col, value, ~InBounds(call.area, row, col),
                         "None", call.calls + 1)
    /\ UNCHANGED <<search, gen, sim>>

\* area.get_cell(row, col): the cell, or the IndexError of the range check.
CallGetCell ==
    /\ call.op \in {"Area", "set_cell", "get_cell"}
    /\ call.calls < AreaCalls
    /\ \E row \in Coords(call.area.rows), col \in Coords(call.area.cols) :
        LET result == get_cell(call.area, row, col)
        IN  call' = AreaCall("get_cell", call.area, row, col, call.value,
                             result = "IndexError", result, call.calls + 1)
    /\ UNCHANGED <<search, gen, sim>>

NextArea == CallSetCell \/ CallGetCell

SpecArea == InitArea /\ [][NextArea]_vars

\* ---------------------------------------------- claims on Area accessors
\* The coordinates of the call just made lie outside [0,rows) x [0,cols).
OutOfRange ==
    \/ call'.row < 0 \/ call'.row >= call.area.rows
    \/ call'.col < 0 \/ call'.col >= call.area.cols

\* C19: get_cell and set_cell with coordinates outside [0,rows) x [0,cols),
\* negative ones included, fail with the out-of-bounds error and leave every
\* cell unchanged; inside the range they never fail, set_cell changes the
\* addressed cell only, get_cell returns the stored value, and a get_cell
\* straight after a set_cell of the same cell returns the value set.
C19_AccessRangeChecked ==
    [][call'.op \in {"set_cell", "get_cell"} =>
        /\ call'.area.rows = call.area.rows /\ call'.area.cols = call.area.cols
        /\ IF OutOfRange
           THEN call'.raised /\ call'.area.grid = call.area.grid
           ELSE /\ ~call'.raised
                /\ \A p \in DOMAIN call.area.grid :
                     p # <<call'.row, call'.col>>
                     => call'.area.grid[p] = call.area.grid[p]
                /\ call'.op = "set_cell"
                   => call'.area.grid[<<call'.row, call'.col>>] = call'.value
                /\ call'.op = "get_cell"
                   => /\ call'.result = call.area.grid[<<call'.row, call'.col>>]
                      /\ call'.area.grid = call.area.grid
                      /\ (call.op = "set_cell" /\ ~call.raised
                          /\ call.row = call'.row /\ call.col = call'.col)
                         => call'.result = call.value]_vars

\* A set_cell with a negative row has raised, as the last of the calls, on a
\* grid an earlier set_cell had changed.
C19_Witness ==
    /\ call.op = "set_cell"
    /\ call.raised
    /\ call.row < 0
    /\ call.calls = AreaCalls
    /\ \E p, q \in DOMAIN call.area.grid : call.area.grid[p] # call.area.grid[q]

\* Supporting lemma for C19: the grid never holds anything but cell values
\* at exactly the cells of its dimensions.
AreaGridWellFormed ==
    call.op \in {"Area", "set_cell", "get_cell"}
    => /\ DOMAIN call.area.grid = Cells(call.area.rows, call.area.cols)
       /\ \A p \in DOMAIN call.area.grid : call.area.grid[p] \in CellValues

\* A get_cell that returned the value the set_cell before it stored.
SetThenGet ==
    /\ call.op = "get_cell"
    /\ ~call.raised
    /\ call.result = "X"
    /\ call.value = "X"
    /\ call.calls >= 2

\* ========================================================= Game constructor
\* (mutant: the marker check ignores headless.)
Game_init_always_checks(area, headless) ==
    LET start_pos == find_char(area, "P")
        exit_pos == find_char(area, "E")
    IN  IF start_pos = NoPos \/ exit_pos = NoPos
        THEN [raised |-> TRUE, start_pos |-> start_pos, exit_pos |-> exit_pos,
              player_pos |-> NoPos, fig_open |-> FALSE]
        ELSE [raised |-> FALSE, start_pos |-> start_pos, exit_pos |-> exit_pos,
              player_pos |-> start_pos, fig_open |-> ~headless]

\* Game.__init__(area, color_map, non_walkable_tiles, headless): the
\* ValueError or the fields of the constructed object (None is NoPos).
Game_init(area, headless) ==
    LET start_pos == find_char(area, "P")
        exit_pos == find_char(area, "E")
    IN  IF ~headless /\ (start_pos = NoPos \/ exit_pos = NoPos)
        THEN [raised |-> TRUE, start_pos |-> start_pos, exit_pos |-> exit_pos,
              player_pos |-> NoPos, fig_open |-> FALSE]
        ELSE [raised |-> FALSE, start_pos |-> start_pos, exit_pos |-> exit_pos,
              player_pos |-> start_pos, fig_open |-> ~headless]

\* The tags of the grids a Game is constructed on here.
MarkerTags == {".", "P", "E"}

GameAreas ==
    UNION {{[rows |-> M, cols |-> N, grid |-> g] : g \in [Cells(M, N) -> MarkerTags]} :
           <<M, N>> \in (1 .. GameRows) \X (1 .. GameCols)}

\* A caller about to construct a Game: main() (headless left False) or
\* generate_random_map (headless=True).
InitGame ==
    /\ \E area \in GameAreas, headless \in BOOLEAN :
        call = [op |-> "Game", area |-> area, headless |-> headless, done |-> FALSE,
                game |-> Game_init(Area(1, 1, "."), TRUE)]
    /\ search = SearchIdle
    /\ gen = GenNone
    /\ sim = SimNone

\* The constructor runs.
ConstructGame ==
    /\ call.op = "Game"
    /\ ~call.done
    /\ call' = [call EXCEPT !.done = TRUE,
                            !.game = Game_init(call.area, call.headless)]
    /\ UNCHANGED <<search, gen, sim>>

NextGame == ConstructGame

SpecGame == InitGame /\ [][NextGame]_vars

\* ------------------------------------------- claims on the Game constructor
\* The grid of the construction lacks a P tag or lacks an E tag.
MarkerMissing ==
    \/ \A p \in DOMAIN call.area.grid : call.area.grid[p] # "P"
    \/ \A p \in DOMAIN call.area.grid : call.area.grid[p] # "E"

\* C20: constructing a non-headless Game on a grid without a P tag or without
\* an E tag fails with the missing-marker error; constructing it headless on
\* such a grid succeeds.
C20_MissingMarkerFatalUnlessHeadless ==
    (call.op = "Game" /\ call.done /\ MarkerMissing)
    => (call.game.raised <=> ~call.headless)

\* generate_random_map's construction: headless, on the all-'.' grid, done
\* without an error and with no start position found.
C20_Witness ==
    /\ call.op = "Game"
    /\ call.done
    /\ call.headless
    /\ call.area = Area(GameRows, GameCols, ".")
    /\ ~call.game.raised
    /\ call.game.start_pos = NoPos

\* A non-headless construction that failed on a grid with a P and no E.
NonHeadlessRaised ==
    /\ call.op = "Game"
    /\ call.done
    /\ ~call.headless
    /\ call.game.raised
    /\ \E p \in DOMAIN call.area.grid : call.area.grid[p] = "P"

\* Supporting lemma for C20: with both markers on the grid no construction
\* fails, and the player starts at the first P in row-major order.
MarkedGridConstructs ==
    (call.op = "Game" /\ call.done /\ ~MarkerMissing)
    => /\ ~call.game.raised
       /\ call.area.grid[call.game.player_pos] = "P"
       /\ call.area.grid[call.game.exit_pos] = "E"
       /\ \A p \in DOMAIN call.area.grid :
            call.area.grid[p] = "P"
            => (p = call.game.player_pos \/ PosLess(call.game.player_pos, p))

\* The number of cells of the construction's grid that hold tag.
TagCount(tag) ==
    Cardinality({p \in DOMAIN call.area.grid : call.area.grid[p] = tag})

\* C21: a non-headless Game is never successfully constructed on a grid that
\* holds more than one P tag or more than one E tag.
C21_DuplicateMarkersRejected ==
    (call.op = "Game" /\ call.done /\ ~call.headless
        /\ (TagCount("P") > 1 \/ TagCount("E") > 1))
    => call.game.raised

\* Supporting lemma for C21: the constructor fails only for a missing marker,
\* however many copies of a marker the grid holds.
ConstructorFailsOnlyOnMissingMarker ==
    (call.op = "Game" /\ call.done)
    => (call.game.raised
        <=> (~call.headless /\ (TagCount("P") = 0 \/ TagCount("E") = 0)))

\* A non-headless Game constructed on a grid with two P tags.
TwoPlayersConstructed ==
    /\ call.op = "Game"
    /\ call.done
    /\ ~call.headless
    /\ ~call.game.raised
    /\ TagCount("P") = 2
    /\ TagCount("E") = 1

\* ------------------------------------------------ claims on the key handler
\* The commands on_key_press knows.
RecognisedKeys == {"e", "r", "n", "m", "p", "s", "f", "up", "down", "left", "right"}

\* on_key_press(S, key) leaves the control signal, the paused flag, the step
\* delay, the player position and the grid of S as they are.
KeyIgnored(S, key) ==
    LET T == on_key_press(S, key)
    IN  /\ T.request = S.request
        /\ T.is_paused = S.is_paused
        /\ T.animation_speed = S.animation_speed
        /\ T.player_pos = S.player_pos
        /\ T.area = S.area

\* C22: wherever the event loop can deliver a key, a key that is none of the
\* recognised commands (the empty key and multi-character keys such as 'er'
\* included) is ignored by on_key_press.
C22_UnrecognisedKeyIgnored ==
    InEventLoop => \A key \in Keys \ RecognisedKeys : KeyIgnored(sim, key)

\* Supporting lemma for C22: an unrecognised key that is no substring of
\* 'ernm' is ignored.
NonSubstringKeyIgnored ==
    InEventLoop =>
        \A key \in Keys \ RecognisedKeys : ~InErnm(key) => KeyIgnored(sim, key)

\* Supporting lemma for C22: an unrecognised key that is a substring of
\* 'ernm' sets request to None and closes the figure.
SubstringKeyEndsRun ==
    InEventLoop =>
        \A key \in Keys \ RecognisedKeys :
            InErnm(key) => /\ on_key_press(sim, key).request = "None"
                           /\ ~on_key_press(sim, key).fig_open

\* A run in which a key press has set request to None.
RequestNoneReached ==
    /\ sim.request = "None"
    /\ sim.keys >= 1
    /\ ~sim.fig_open

\* ==================================================== animation speed
\* What the user types at "Enter new animation speed", in hundredths of a
\* second: a negative number, zero, values near and beyond both bounds.
SpeedInputs == {-5, 0, 3, 97, 500}

\* The runs of Game that read the speed keys, and the manual run.
SpeedAgents == {"manual", "a_star_ai"}

\* main() at its menu, no speed stored yet.
InitSpeed ==
    /\ sim = SimMenu(from_list(MapOpen), [exists |-> FALSE, table |-> <<>>])
    /\ call = CallNone
    /\ search = SearchIdle
    /\ gen = GenNone

\* main(): choice 'a': a negative input raises ValueError, which is caught
\* there; any other number is stored as Game.animation_speed_override.
MenuSpeed ==
    /\ sim.pc = "menu"
    /\ \E new_speed \in SpeedInputs :
        call' = IF new_speed < 0 THEN call
                ELSE [op |-> "animation_speed_override", value |-> new_speed]
    /\ UNCHANGED <<search, gen, sim>>

MenuRunSpeed == MenuRunOf(SpeedAgents)

NextSpeed ==
    \/ MenuSpeed
    \/ MenuRunSpeed
    \/ RunBegin
    \/ AStarTick
    \/ AfterPause
    \/ ShowReturns
    \/ KeyPress
    \/ CloseWindow

SpecSpeed == InitSpeed /\ [][NextSpeed]_vars

\* ------------------------------------------- claims on the animation speed
\* C23: at every point of every run, whatever speed keys were pressed and
\* whatever speed was entered at the menu, the step delay lies in
\* [0.01, 1.0].
C23_StepDelayInRange ==
    SpeedMin <= sim.animation_speed /\ sim.animation_speed <= SpeedMax

\* Supporting lemma for C23: while no speed was entered at the menu, the step
\* delay lies in [0.01, 1.0].
StepDelayInRangeWithoutOverride ==
    call = CallNone => C23_StepDelayInRange

\* Supporting lemma for C23: a key press that changes a step delay lying in
\* the range changes it by one step of 0.05, or to the bound it would pass.
SpeedKeyStepsOrClamps ==
    [][(sim'.keys = sim.keys + 1 /\ sim'.animation_speed # sim.animation_speed
            /\ C23_StepDelayInRange)
        => \/ sim'.animation_speed = sim.animation_speed + SpeedStep
           \/ sim'.animation_speed = sim.animation_speed - SpeedStep
           \/ (sim'.animation_speed = SpeedMax
                /\ sim.animation_speed + SpeedStep > SpeedMax)
           \/ (sim'.animation_speed = SpeedMin
                /\ sim.animation_speed - SpeedStep < SpeedMin)]_vars

\* A run whose step delay, entered at the menu, is beyond the upper bound.
DelayAboveRange ==
    /\ sim.pc = "wait"
    /\ sim.agent = "a_star_ai"
    /\ sim.animation_speed > SpeedMax

\* A run in which the slower key has clamped the step delay at 1.0.
DelayClampedAtMax ==
    /\ sim.agent = "a_star_ai"
    /\ sim.keys >= 1
    /\ call.op = "animation_speed_override"
    /\ call.value < SpeedMax
    /\ sim.animation_speed = SpeedMax

\* ================================================== repeated A* searches
\* (mutant: came_from and g_score are kept from the call before, as instance
\* attributes would be.)
a_star_call_keeps_scores(area, non_walkable, start, goal, include_start) ==
    LET fresh == AStarStart(area, non_walkable, start, goal, include_start)
    IN  IF search.status \in {"found", "none"}
        THEN [fresh EXCEPT !.g_score = (start :> 0) @@ search.g_score,
                           !.came_from = search.came_from]
        ELSE fresh

\* A call of _a_star_pathfinding on a Game that has made calls before:
\* open_set, came_from and g_score are locals, created by every call.
a_star_call(area, non_walkable, start, goal, include_start) ==
    AStarStart(area, non_walkable, start, goal, include_start)

\* What a finished call returned: the path, or None.
Returned(st) == [found |-> st.status = "found", path |-> st.path]

NoReturn == [found |-> FALSE, path |-> <<>>]

\* A Game on which a first search has been called; call holds its arguments,
\* which of the caller's searches is running and what the first and the
\* repeated call returned.
InitTwice ==
    /\ \E area \in SearchAreas, include_start \in BOOLEAN :
        \E start, goal \in {p \in Cells(area.rows, area.cols) : area.grid[p] # "X"} :
            /\ search = AStarStart(area, {"X"}, start, goal, include_start)
            /\ call = [op |-> "first", start |-> start, goal |-> goal,
                       include_start |-> include_start,
                       first |-> NoReturn, second |-> NoReturn]
    /\ gen = GenNone
    /\ sim = SimNone

\* The first call returns; the caller either repeats it at once or first
\* searches the way back on the same grid.
FirstReturns ==
    /\ call.op = "first"
    /\ search.status \in {"found", "none"}
    /\ \E between \in BOOLEAN, include_start \in BOOLEAN :
        IF between
        THEN /\ call' = [call EXCEPT !.op = "between", !.first = Returned(search)]
             /\ search' = a_star_call(search.area, search.non_walkable, call.goal,
                                      call.start, include_start)
        ELSE /\ include_start
             /\ call' = [call EXCEPT !.op = "second", !.first = Returned(search)]
             /\ search' = a_star_call(search.area, search.non_walkable, call.start,
                                      call.goal, call.include_start)
    /\ UNCHANGED <<gen, sim>>

\* The search in between returns; the caller repeats the first call.
BetweenReturns ==
    /\ call.op = "between"
    /\ search.status \in {"found", "none"}
    /\ call' = [call EXCEPT !.op = "second"]
    /\ search' = a_star_call(search.area, search.non_walkable, call.start,
                             call.goal, call.include_start)
    /\ UNCHANGED <<gen, sim>>

\* The repeated call returns.
SecondReturns ==
    /\ call.op = "second"
    /\ search.status \in {"found", "none"}
    /\ call' = [call EXCEPT !.op = "done", !.second = Returned(search)]
    /\ UNCHANGED <<search, gen, sim>>

NextTwice == AStarLoopStep \/ FirstReturns \/ BetweenReturns \/ SecondReturns

SpecTwice == InitTwice /\ [][NextTwice]_vars

RepeatedCallSameArguments ==
    call.op \in {"first", "second", "done"}
    => /\ search.start = call.start
       /\ search.goal = call.goal
       /\ search.include_start = call.include_start

\* ------------------------------------------- claims on A* termination
\* C25: the A* search loop terminates on every grid for every start and goal,
\* whether or not the goal is reachable.
C25_AStarTerminates == <>(search.status \in {"found", "none"})

\* A search for an unreachable goal has ended with the heap emptied, after
\* popping three cells or more.
C25_Witness ==
    /\ search.status = "none"
    /\ search.open_set = {}
    /\ search.pops >= 3
    /\ search.goal \notin DOMAIN search.g_score

\* Supporting lemma for C25: an iteration pushes a cell only with a g-score
\* strictly below the one the cell had, and removes the entry it popped.
PushOnlyOnStrictDecrease ==
    [][search.status = "running" =>
        /\ \A e \in search'.open_set \ search.open_set :
            /\ e[2] \in DOMAIN search'.g_score
            /\ e[1] = search'.g_score[e[2]] + heuristic_distance(e[2], search.goal)
            /\ e[2] \in DOMAIN search.g_score
               => search'.g_score[e[2]] < search.g_score[e[2]]
        /\ search.open_set # {} => HeapMin(search.open_set) \notin search'.open_set
        /\ \A p \in DOMAIN search.g_score :
            p \in DOMAIN search'.g_score /\ search'.g_score[p] <= search.g_score[p]]_vars

\* Supporting lemma for C25: a call pops no more entries than the grid has
\* cells.
PopsBounded ==
    search.status # "idle" => search.pops <= search.area.rows * search.area.cols

\* ------------------------------------------ claims on generator termination
\* C26: for every M, N > 0 and every outcome of the random choices the
\* generator returns after one pass: the flood-fill loop runs at most once per
\* cell and the call reaches its return.
C26_GeneratorTerminates ==
    /\ [](gen.iters <= gen.M * gen.N)
    /\ <>(gen.phase = "done")

\* A generator call has returned after a flood fill of every cell of the
\* 3 x 3 grid or more.
C26_Witness ==
    /\ gen.phase = "done"
    /\ gen.iters >= 9
    /\ gen.q = <<>>

\* Supporting lemma for C26: the phases follow each other in one order, each
\* entered once, and a queued cell is a visited cell not yet counted reachable.
GeneratorSinglePass ==
    [][/\ gen.phase = "carve" => gen'.phase = "sparsify"
       /\ gen.phase = "sparsify" => gen'.phase = "flood"
       /\ gen.phase = "flood" => gen'.phase \in {"flood", "done"}
       /\ gen.phase # "done"
       /\ gen'.phase = "flood" =>
            /\ \A i \in 1 .. Len(gen'.q) :
                gen'.q[i] \in gen'.visited_flood_fill \ gen'.reachable_cells
            /\ \A i, j \in 1 .. Len(gen'.q) : i # j => gen'.q[i] # gen'.q[j]]_vars

\* A generator call returned a grid whose prune step closed an opened cell.
PruneClosedACell ==
    /\ gen.phase = "done"
    /\ gen.iters < gen.M * gen.N
    /\ \E p \in DOMAIN gen.game_map.grid :
        gen.game_map.grid[p] = "X" /\ p \notin gen.path_cells

\* ==================================================== Q-learning runs alone
\* Maps with the exit one step and two steps east of the player.
MapExitNext == << <<"P", "E">> >>

MapExitSecond == << <<"P", ".", "E">> >>

QMaps == {from_list(MapExitNext), from_list(MapExitSecond)}

QAgents == {"QLearningTrain", "QLearningTest"}

\* main() at its menu, QLearningConfig.STEPS_PER_EPISODE being QSteps.
InitQ ==
    /\ \E area \in QMaps, q_file \in QFiles :
        sim = [SimMenu(area, q_file) EXCEPT !.steps_per_episode = QSteps]
    /\ call = CallNone
    /\ search = SearchIdle
    /\ gen = GenNone

\* main(): choices 6 and 7.
MenuRunQ == MenuRunOf(QAgents)

NextQ ==
    \/ MenuRunQ
    \/ RunBegin
    \/ QTick
    \/ AfterPause
    \/ ShowReturns
    \/ KeyPress
    \/ CloseWindow

SpecQ == InitQ /\ [][NextQ]_vars

\* ---------------------------------------------- claims on Q-learning runs
\* An evaluation run is inside its episode loop or at its closing plt.show().
EvalRunning ==
    /\ sim.agent = "QLearningTest"
    /\ sim.pc \in {"wait", "sleep", "show"}

\* A step of an episode is executed.
QStepTaken ==
    /\ sim.agent \in QAgents
    /\ sim.pc = "wait"
    /\ sim'.pc # "wait" \/ sim'.prev_action # sim.prev_action
         \/ sim'.step # sim.step \/ sim'.episode # sim.episode
    /\ sim'.keys = sim.keys

\* C27: during an evaluation run the Q-table is never modified: it is and
\* stays the table that was loaded; the table of a run changes only in a
\* step of a training run.
C27_EvalNeverWritesTable ==
    [][/\ EvalRunning => (sim.q_table = sim.q_file.table /\ sim'.q_table = sim.q_table)
       /\ (sim'.q_table # sim.q_table /\ sim.pc \notin {"menu", "start"})
          => (sim.training_mode /\ QStepTaken)]_vars

\* An evaluation run at its closing plt.show(), two steps made on the loaded
\* table.
C27_Witness ==
    /\ sim.agent = "QLearningTest"
    /\ sim.pc = "show"
    /\ sim.moves = 2
    /\ sim.q_table = TrainedTable

\* A training run has written a value into its table.
TrainingWroteTable ==
    /\ sim.agent = "QLearningTrain"
    /\ sim.pc = "wait"
    /\ \E k \in DOMAIN sim.q_table : sim.q_table[k] # 0

\* The episodes the run's loop ranges over.
EpisodeBudget == IF sim.training_mode THEN Episodes ELSE 1

\* C28: a step of an episode is executed only while the player has not
\* entered the exit in that episode, the episode has taken fewer steps than
\* the step budget, and the episode is one of the configured number (one in
\* evaluation); an evaluation run that loaded its table begins its one episode.
C28_EpisodeEndsAtExitOrBudget ==
    [][/\ QStepTaken => /\ sim.player_pos # sim.exit_pos
                        /\ sim.step < sim.steps_per_episode
                        /\ sim.episode < EpisodeBudget
       /\ (sim.pc = "start" /\ sim.agent = "QLearningTest" /\ sim.q_file.exists)
          => (sim'.pc = "wait" /\ sim'.episode = 0 /\ sim'.step = 0)]_vars

\* A training run is in its second episode, the first one having been ended
\* by the exit on its first step (the table holds the exit's reward for the
\* start state) with a step of the budget left.
C28_Witness ==
    /\ sim.agent = "QLearningTrain"
    /\ sim.pc = "wait"
    /\ sim.episode = 1
    /\ sim.step = 0
    /\ sim.area.cols = 2
    /\ sim.moves = 1
    /\ sim.steps_per_episode > 1
    /\ sim.q_table = (<< <<sim.start_pos, {sim.start_pos}>>, 1 >> :> 10000)

\* Supporting lemma for C28: a run never waits for a step with the player on
\* the exit or with the step budget used up, and never runs more moves than
\* episodes times budget.
NoStepPendingAtExit ==
    (sim.agent \in QAgents /\ sim.pc \in {"wait", "sleep"})
    => /\ sim.pc = "wait" => sim.player_pos # sim.exit_pos
       /\ sim.step < sim.steps_per_episode
       /\ sim.episode < EpisodeBudget
       /\ sim.moves <= sim.episode * sim.steps_per_episode + sim.step + 1

\* An episode used up its step budget without reaching the exit.
BudgetExhausted ==
    /\ sim.agent = "QLearningTrain"
    /\ sim.pc = "wait"
    /\ sim.episode = 1
    /\ sim.step = 0
    /\ sim.moves = sim.steps_per_episode
    /\ sim.player_pos = sim.start_pos

\* ------------------------------------------------ claims on returned paths
\* What the same search returns with the other value of include_start.
OtherFlagResult ==
    a_star_pathfinding(search.area, search.non_walkable, search.start, search.goal,
                       ~search.include_start)

\* C29: a returned path is a sequence of in-bounds walkable cells, consecutive
\* cells 4-adjacent, its last cell the goal; with include_start its first cell
\* is the start, and without include_start it is the path with include_start
\* less its first cell (the empty sequence when start equals goal).
C29_PathWellFormed ==
    search.status = "found" =>
        LET path == search.path IN
        /\ \A i \in 1 .. Len(path) : Walkable(search.area, search.non_walkable, path[i])
        /\ \A i \in 1 .. Len(path) - 1 :
             heuristic_distance(path[i], path[i + 1]) = 1
        /\ path # <<>> => path[Len(path)] = search.goal
        /\ search.include_start => (path # <<>> /\ path[1] = search.start)
        /\ OtherFlagResult.found
        /\ search.include_start => OtherFlagResult.path = Tail(path)
        /\ ~search.include_start =>
             /\ OtherFlagResult.path # <<>>
             /\ path = Tail(OtherFlagResult.path)
             /\ (path = <<>>) <=> (search.start = search.goal)

\* A search without include_start returned three cells or more, the first of
\* them next to the start.
C29_Witness ==
    /\ search.status = "found"
    /\ ~search.include_start
    /\ Len(search.path) >= 3
    /\ heuristic_distance(search.start, search.path[1]) = 1

\* A search from a cell to itself without include_start returned the empty
\* sequence.
EmptyPathReturned ==
    /\ search.status = "found"
    /\ ~search.include_start
    /\ search.start = search.goal
    /\ search.path = <<>>

\* ------------------------------------------- claims on the greedy selection
\* The neighbours of the player in the scan order up, down, left, right.
ScanOrder ==
    << <<sim.player_pos[1] - 1, sim.player_pos[2]>>,
       <<sim.player_pos[1] + 1, sim.player_pos[2]>>,
       <<sim.player_pos[1], sim.player_pos[2] - 1>>,
       <<sim.player_pos[1], sim.player_pos[2] + 1>> >>

\* The places in the scan order of the neighbours that are in bounds and hold
\* no wall.
Candidates ==
    {i \in 1 .. 4 :
        /\ 0 <= ScanOrder[i][1] /\ ScanOrder[i][1] < sim.area.rows
        /\ 0 <= ScanOrder[i][2] /\ ScanOrder[i][2] < sim.area.cols
        /\ sim.area.grid[ScanOrder[i]] # "X"}

ExitDistance(i) ==
    Abs(ScanOrder[i][1] - sim.exit_pos[1]) + Abs(ScanOrder[i][2] - sim.exit_pos[2])

\* The candidate of least distance to the exit, the first in the scan order
\* among those of equal distance.
NearestCandidate ==
    CHOOSE i \in Candidates : \A j \in Candidates :
        ExitDistance(i) < ExitDistance(j) \/ (ExitDistance(i) = ExitDistance(j) /\ i <= j)

\* The step of a run of agent that follows its move selection is a move onto
\* the nearest candidate, or the end of the run with no move when there is no
\* candidate.
SelectionFollowed(agents) ==
    (sim.agent \in agents /\ sim.pc = "wait")
    => IF Candidates = {}
       THEN sim'.player_pos = sim.player_pos /\ sim'.pc \in {"show", "menu"}
       ELSE sim'.player_pos = ScanOrder[NearestCandidate] /\ sim'.pc = "sleep"

\* C30: for every player position the Greedy move selection, of Game and of
\* GreedyAgent, returns the in-bounds walkable neighbour of least Manhattan
\* distance to the exit, the first in the order up, down, left, right among
\* equals, and returns no move exactly when no neighbour is in bounds and
\* walkable.
C30_GreedyPicksNearest == [][SelectionFollowed(GreedyAgents)]_vars

\* Supporting lemma for C30: Game._get_best_move_greedy does so.
GameGreedyPicksNearest == [][SelectionFollowed({"greedy_ai"})]_vars

\* Game.run_greedy_ai has moved the player farther from the exit than the
\* start cell is.
GreedyMovedAway ==
    /\ sim.agent = "greedy_ai"
    /\ sim.moves = 1
    /\ heuristic_distance(sim.player_pos, sim.exit_pos)
         > heuristic_distance(sim.start_pos, sim.exit_pos)

\* Game.run_greedy_ai has ended with no move: the start cell is walled in.
GreedyStuck ==
    /\ sim.agent = "greedy_ai"
    /\ sim.pc = "show"
    /\ sim.moves = 0
    /\ sim.player_pos # sim.exit_pos

\* Game.run_greedy_ai has taken the first of two neighbours at the same
\* distance from the exit: down, not right.
GreedyTieTakesFirst ==
    /\ sim.agent = "greedy_ai"
    /\ sim.moves = 1
    /\ sim.start_pos = <<0, 0>>
    /\ sim.exit_pos = <<1, 1>>
    /\ sim.player_pos = <<1, 0>>
    /\ sim.area.grid[<<0, 1>>] # "X"

\* -------------------------------------------- claims on the wall follower
\* The neighbour of the player in compass direction dir (0 N, 1 E, 2 S, 3 W).
NeighbourAt(dir) ==
    CASE dir = 0 -> <<sim.player_pos[1] - 1, sim.player_pos[2]>>
      [] dir = 1 -> <<sim.player_pos[1], sim.player_pos[2] + 1>>
      [] dir = 2 -> <<sim.player_pos[1] + 1, sim.player_pos[2]>>
      [] OTHER -> <<sim.player_pos[1], sim.player_pos[2] - 1>>

\* The neighbour in direction dir is in bounds and holds no wall.
OpenAt(dir) ==
    LET n == NeighbourAt(dir)
    IN  /\ 0 <= n[1] /\ n[1] < sim.area.rows
        /\ 0 <= n[2] /\ n[2] < sim.area.cols
        /\ sim.area.grid[n] # "X"

\* The directions a tick tries, by their turn from the facing in quarter
\* turns: 3 is left, 0 facing, 1 right, 2 behind.
TurnDir(turn) == (sim.player_direction + turn) % 4

\* A tick of the wall follower: the step out of its pause wait.
WallFollowerTicks == sim.agent = "WallFollowerAgent" /\ sim.pc = "wait"

\* The tick moves the player into the first open candidate of turns, facing
\* it afterwards.
MovesIntoFirstOpen(turns) ==
    \E k \in 1 .. Len(turns) :
        /\ OpenAt(TurnDir(turns[k]))
        /\ \A j \in 1 .. k - 1 : ~OpenAt(TurnDir(turns[j]))
        /\ sim'.player_pos = NeighbourAt(TurnDir(turns[k]))
        /\ sim'.player_direction = TurnDir(turns[k])

\* C31: a WallFollower tick checks left of facing, facing, right of facing
\* and behind facing, in this order, and moves the player into the first
\* candidate that is in bounds and walkable, facing it afterwards; so when
\* only the neighbour behind is walkable the tick moves into it.
C31_WallFollowerFourCandidates ==
    [][(WallFollowerTicks /\ \E turn \in 0 .. 3 : OpenAt(TurnDir(turn)))
        => MovesIntoFirstOpen(<<3, 0, 1, 2>>)]_vars

\* Supporting lemma for C31: the tick moves into the first open one of left,
\* facing, right; when none of the three is open it turns the facing around
\* and leaves the player where it is.
WallFollowerThreeCandidates ==
    [][WallFollowerTicks
        => IF \E turn \in {3, 0, 1} : OpenAt(TurnDir(turn))
           THEN MovesIntoFirstOpen(<<3, 0, 1>>)
           ELSE /\ sim'.player_pos = sim.player_pos
                /\ sim'.player_direction = TurnDir(2)
                /\ sim'.area = sim.area]_vars

\* A tick has turned the agent around in a dead end without moving it: the
\* neighbour now faced is open.
TurnedInDeadEnd ==
    /\ sim.agent = "WallFollowerAgent"
    /\ sim.pc = "sleep"
    /\ sim.moves = 0
    /\ sim.player_direction = 0
    /\ OpenAt(0)

\* The tick under way moves the player onto a cell it has not stood on yet.
EntersNewCell ==
    /\ sim'.player_pos # sim.player_pos
    /\ sim.area.grid[sim'.player_pos] # "V"

\* The run has declared coverage complete and left its loop.
CoverageDeclared == sim.agent = "WallFollowerAgent" /\ sim.pc = "show"

\* C32: an uninterrupted WallFollower run terminates; a tick that produces
\* a newly visited cell resets the count of ticks without one to zero, any
\* other tick raises it by one, and coverage is declared complete at exactly
\* the tick that takes the count above rows * cols.
C32_CoverageAfterIdleTicks ==
    /\ sim.agent = "WallFollowerAgent" => <>CoverageDeclared
    /\ [][WallFollowerTicks
           => /\ sim'.no_new_cells_count =
                    IF EntersNewCell THEN 0 ELSE sim.no_new_cells_count + 1
              /\ (sim'.pc = "show")
                    <=> (sim'.no_new_cells_count > sim.area.rows * sim.area.cols)]_vars

\* Supporting lemma for C32: an uninterrupted WallFollower run terminates.
WallFollowerRunEnds == sim.agent = "WallFollowerAgent" => <>CoverageDeclared

\* Supporting lemma for C32: every tick raises the count by one, whether or
\* not it enters a new cell, and the run ends at the tick that takes the
\* count above rows * cols: the run has rows * cols + 1 ticks.
CounterCountsEveryTick ==
    [][WallFollowerTicks
        => /\ sim'.no_new_cells_count = sim.no_new_cells_count + 1
           /\ sim'.visited_cells = sim.visited_cells
           /\ (sim'.pc = "show")
                 <=> (sim'.no_new_cells_count > sim.area.rows * sim.area.cols)]_vars

\* Coverage has been declared after a run that moved on every tick, with a
\* cell of the grid still not entered.
DeclaredWhileExploring ==
    /\ CoverageDeclared
    /\ sim.moves = sim.no_new_cells_count
    /\ \E p \in DOMAIN sim.area.grid : sim.area.grid[p] = "."

\* A tick has entered a new cell and the count stands above zero.
CountedANewCell ==
    /\ sim.agent = "WallFollowerAgent"
    /\ sim.pc = "sleep"
    /\ sim.moves = 1
    /\ sim.player_pos # sim.start_pos
    /\ sim.no_new_cells_count = 1

\* ------------------------------------------------ claims on move commands
\* The keys of the four move commands and the cell each one aims at.
MoveKeys == {"up", "down", "left", "right"}

MoveTarget(key) ==
    CASE key = "up" -> <<sim.player_pos[1] - 1, sim.player_pos[2]>>
      [] key = "down" -> <<sim.player_pos[1] + 1, sim.player_pos[2]>>
      [] key = "left" -> <<sim.player_pos[1], sim.player_pos[2] - 1>>
      [] OTHER -> <<sim.player_pos[1], sim.player_pos[2] + 1>>

\* The target is on the grid and holds no wall.
MoveAllowed(key) ==
    LET n == MoveTarget(key)
    IN  /\ 0 <= n[1] /\ n[1] < sim.area.rows
        /\ 0 <= n[2] /\ n[2] < sim.area.cols
        /\ sim.area.grid[n] # "X"

\* C33: wherever a key can be delivered, a move command in an agent mode
\* leaves player and grid unchanged; in manual mode a move to an off-grid or
\* non-walkable target leaves them unchanged, and an allowed move marks the
\* old cell Visited, the new cell Player and moves the player by exactly one
\* cell.
C33_MoveCommandsManualOnly ==
    InEventLoop =>
        \A key \in MoveKeys :
            LET T == on_key_press(sim, key)
            IN  IF sim.mode = "manual" /\ MoveAllowed(key)
                THEN /\ T.player_pos = MoveTarget(key)
                     /\ Adjacent(T.player_pos, sim.player_pos)
                     /\ T.area.rows = sim.area.rows
                     /\ T.area.cols = sim.area.cols
                     /\ T.area.grid = [sim.area.grid EXCEPT ![sim.player_pos] = "V",
                                                             ![MoveTarget(key)] = "P"]
                ELSE /\ T.player_pos = sim.player_pos
                     /\ T.area = sim.area

\* A manual run has taken one allowed move: the start cell is Visited and the
\* player stands on a neighbour of it.
C33_Witness ==
    /\ sim.mode = "manual"
    /\ sim.pc = "show"
    /\ sim.moves = 1
    /\ Adjacent(sim.player_pos, sim.start_pos)
    /\ sim.area.grid[sim.start_pos] = "V"
    /\ sim.area.grid[sim.player_pos] = "P"

\* Supporting lemma for C33: a key delivered in an agent mode changes
\* neither the player nor the grid, and one delivered in manual mode moves
\* the player by at most one cell.
KeyMovesOnlyInManual ==
    [][sim'.keys = sim.keys + 1
        => IF sim.mode = "manual"
           THEN sim'.player_pos = sim.player_pos \/ Adjacent(sim'.player_pos, sim.player_pos)
           ELSE sim'.player_pos = sim.player_pos /\ sim'.area = sim.area]_vars

\* A key has been delivered to an agent run whose player has a free
\* neighbour and stands where the run's own moves put it.
KeyInAgentMode ==
    /\ sim.mode \notin {"manual"}
    /\ sim.pc = "sleep"
    /\ sim.keys > 0
    /\ sim.request = "CONTINUE"
    /\ \E key \in MoveKeys : MoveAllowed(key)

\* A manual run faces a blocked move: some move command aims off the grid or
\* at a wall.
ManualMoveBlocked ==
    /\ sim.mode = "manual"
    /\ InEventLoop
    /\ sim.keys > 0
    /\ sim.moves = 0
    /\ \E key \in MoveKeys : ~MoveAllowed(key)

\* ------------------------------------------ claims on the Q-learning step
\* A Q-learning step is about to be taken: the loop is past its pause wait.
QStepReady == sim.agent \in QAgents /\ sim.pc = "wait" /\ ~sim.is_paused

\* The cell the action aims at from the player's position.
QTarget(action) ==
    CASE action = 0 -> <<sim.player_pos[1] - 1, sim.player_pos[2]>>
      [] action = 1 -> <<sim.player_pos[1], sim.player_pos[2] + 1>>
      [] action = 2 -> <<sim.player_pos[1] + 1, sim.player_pos[2]>>
      [] OTHER -> <<sim.player_pos[1], sim.player_pos[2] - 1>>

\* The target is off the grid or holds a wall.
QBlocked(action) ==
    LET n == QTarget(action)
    IN  ~(/\ 0 <= n[1] /\ n[1] < sim.area.rows
          /\ 0 <= n[2] /\ n[2] < sim.area.cols
          /\ sim.area.grid[n] # "X")

\* The reward for keeping or changing the direction of the previous step.
DirectionReward(action) ==
    IF sim.prev_action = -1 THEN 0
    ELSE IF action = sim.prev_action THEN RewardStraight ELSE RewardTurn

\* The table a training step writes when its base reward is base and it
\* leaves the player on next_pos.
TableLearntWith(action, base, next_pos) ==
    update(sim.q_table, <<sim.player_pos, sim.visited_cells>>, action,
           base + DirectionReward(action),
           <<next_pos, sim.visited_cells \cup {next_pos}>>)

\* The step, followed by what the loop does after the step's pause.
QStepDone(action) ==
    LET T == QStep(sim, action)
    IN  IF T.pc = "sleep" THEN QAfterStep(T) ELSE T

\* The step has ended the episode it was taken in.
QEpisodeOver(action) ==
    ~(QStepDone(action).pc = "wait" /\ QStepDone(action).episode = sim.episode)

ExitRewarded ==
    /\ sim.agent = "QLearningTrain"
    /\ sim.pc = "sleep"
    /\ sim.player_pos = sim.exit_pos
    /\ \E k \in DOMAIN sim.q_table : sim.q_table[k] >= RewardExit \div 10

\* ================================================ Q-learning runs, key-free
\* A room with two ways round from the player to the exit.
MapSquare == << <<"P", ".">>, <<".", "E">> >>

RevisitMaps == {from_list(MapExitSecond), from_list(MapSquare)}

\* main() at its menu, QLearningConfig.STEPS_PER_EPISODE being RevisitSteps.
InitRevisit ==
    /\ \E area \in RevisitMaps, q_file \in QFiles :
        sim = [SimMenu(area, q_file) EXCEPT !.steps_per_episode = RevisitSteps]
    /\ call = CallNone
    /\ search = SearchIdle
    /\ gen = GenNone

\* Runs that receive no key and whose window stays open.
NextRevisit ==
    \/ MenuRunQ
    \/ RunBegin
    \/ QTick
    \/ AfterPause

SpecRevisit == InitRevisit /\ [][NextRevisit]_vars

\* The cells the player has stood on in the first episode of a run: the grid
\* is fresh when the run starts, and every cell left is marked V.
EnteredFirstEpisode == {p \in DOMAIN sim.area.grid : sim.area.grid[p] \in {"V", "P"}}

\* A training step of the first episode is about to be taken.
FirstEpisodeStepReady == QStepReady /\ sim.training_mode /\ sim.episode = 0

\* C35: a Q-learning step that moves the player into a walkable non-exit
\* cell has the base reward -0.2 if the player has been on that cell earlier
\* in the episode (or it is the start cell) and +1 only if the cell has not
\* been entered in the episode; stated for the steps of a run's first
\* episode, where the cells entered are the ones the grid marks V or P.
C35_RevisitPenalised ==
    FirstEpisodeStepReady =>
        \A action \in Actions :
            (~QBlocked(action) /\ QTarget(action) # sim.exit_pos) =>
                QStep(sim, action).q_table =
                    TableLearntWith(action,
                        IF QTarget(action) \in EnteredFirstEpisode
                        THEN RewardRevisit ELSE RewardNew,
                        QTarget(action))

\* Supporting lemma for C35: in every episode the set the reward consults is
\* the start cell alone, and a step into a walkable non-exit cell has the
\* base reward -0.2 for the start cell and +1 for every other cell.
RevisitPenaltyOnlyForStart ==
    (QStepReady /\ sim.training_mode) =>
        /\ sim.visited_cells = {sim.start_pos}
        /\ \A action \in Actions :
              (~QBlocked(action) /\ QTarget(action) # sim.exit_pos) =>
                  QStep(sim, action).q_table =
                      TableLearntWith(action,
                          IF QTarget(action) = sim.start_pos
                          THEN RewardRevisit ELSE RewardNew,
                          QTarget(action))

\* The player has left the start cell for a neighbour, come back and entered
\* the same neighbour again, and the table values that action from the start
\* above one reward for a new cell.
RevisitRewardedAsNew ==
    /\ sim.agent = "QLearningTrain"
    /\ sim.pc = "sleep"
    /\ sim.episode = 0
    /\ sim.step = 2
    /\ sim.player_pos \notin {sim.start_pos, sim.exit_pos}
    /\ <<<<sim.start_pos, {sim.start_pos}>>, sim.prev_action>> \in DOMAIN sim.q_table
    /\ sim.q_table[<<<<sim.start_pos, {sim.start_pos}>>, sim.prev_action>>]
          > RewardNew \div 10

\* ------------------------------------------------ claims on the Q-table
\* The value the table of the run stores for (state, action), 0 when absent.
Stored(state, action) ==
    IF <<state, action>> \in DOMAIN sim.q_table THEN sim.q_table[<<state, action>>] ELSE 0

\* The rewards a step can have: a base reward plus a direction reward.
StepRewards ==
    {base + direction : base \in {RewardWall, RewardExit, RewardRevisit, RewardNew},
                        direction \in {0, RewardTurn, RewardStraight}}

\* The states a step can lead to from the player's: a cell, with the visited
\* set extended by it.
NextStates ==
    {<<p, sim.visited_cells \cup {p}>> : p \in Cells(sim.area.rows, sim.area.cols)}

\* C36: update(state, action, reward, next_state) sets the entry (state,
\* action) to old + alpha * (reward + gamma * m - old), m being the greatest
\* value stored at next_state over all actions, absent entries read as 0
\* (alpha 0.1, gamma 0.99), and leaves every other entry of the table
\* unchanged.
C36_UpdateRule ==
    (QStepReady /\ sim.training_mode) =>
        \A action \in Actions, reward \in StepRewards, next_state \in NextStates :
            LET state == <<sim.player_pos, sim.visited_cells>>
                U == update(sim.q_table, state, action, reward, next_state)
                old == Stored(state, action)
            IN  /\ DOMAIN U = DOMAIN sim.q_table \cup {<<state, action>>}
                /\ \A k \in DOMAIN sim.q_table \ {<<state, action>>} : U[k] = sim.q_table[k]
                /\ \E best \in Actions :
                      /\ \A a \in Actions : Stored(next_state, a) <= Stored(next_state, best)
                      /\ U[<<state, action>>] =
                            old + (reward + (99 * Stored(next_state, best)) \div 100 - old)
                                      \div 10

\* A training step has written an entry from a non-zero value stored at the
\* next state and kept the entry written before: the player went back to the
\* start cell.
C36_Witness ==
    /\ sim.agent = "QLearningTrain"
    /\ sim.pc = "sleep"
    /\ sim.player_pos = sim.start_pos
    /\ \E k1, k2 \in DOMAIN sim.q_table :
          /\ k1 # k2
          /\ sim.q_table[k1] > 0
          /\ sim.q_table[k2] =
                (RewardRevisit + RewardTurn + (99 * sim.q_table[k1]) \div 100) \div 10

\* Supporting lemma for C36: a step of a training run changes the table of
\* the run in the entry of its state and action at most.
StepWritesOneEntry ==
    [][(sim.agent = "QLearningTrain" /\ sim.pc = "wait" /\ sim'.keys = sim.keys)
        => \A k \in DOMAIN sim.q_table :
              (k[1] # <<sim.player_pos, sim.visited_cells>> \/ k[2] # sim'.prev_action)
                 => (k \in DOMAIN sim'.q_table /\ sim'.q_table[k] = sim.q_table[k])]_vars

\* ------------------------------------------- claims on the exploration rate
\* The exploration rates after 1, 2, ..., n calls of decay_epsilon on an agent
\* whose rate is epsilon (the calls are split in two halves).
RECURSIVE DecaySeq(_, _)
DecaySeq(epsilon, n) ==
    IF n = 0 THEN <<>>
    ELSE IF n = 1 THEN <<decay_epsilon(epsilon)>>
    ELSE LET half == n \div 2
             first == DecaySeq(epsilon, half)
         IN  first \o DecaySeq(first[half], n - half)

\* The rates of a new agent after 0, 1, ..., MaxDecays calls.
DecayChain == <<EpsilonInit>> \o DecaySeq(EpsilonInit, MaxDecays)

\* Over the chain the rate never increases, never falls below min_epsilon and
\* after k calls is max(min_epsilon, 1.0 - k * epsilon_decay_rate).
DecayLaw ==
    \A k \in 0 .. MaxDecays :
        /\ DecayChain[k + 1] = Max2(MinEpsilon, EpsilonInit - k * EpsilonDecayRate)
        /\ DecayChain[k + 1] >= MinEpsilon
        /\ k > 0 => DecayChain[k + 1] <= DecayChain[k]

\* The episodes of the training run that have ended: the ones the loop has
\* counted, and the one a request has broken off.
EpisodesEnded ==
    IF sim.pc = "crashed" /\ sim.request # "CONTINUE" THEN sim.episode + 1 ELSE sim.episode

DecayOnlyAtEpisodeEnd ==
    [][(sim.agent \in QAgents /\ sim.pc \in {"wait", "sleep"} /\ sim'.epsilon # sim.epsilon)
        => /\ sim.training_mode
           /\ sim'.epsilon = decay_epsilon(sim.epsilon)
           /\ sim'.episode = sim.episode + 1 \/ sim'.pc = "crashed"]_vars

\* A request has broken off the first episode of a training run; the rate
\* has been decayed once.
BrokenEpisodeDecayed ==
    /\ sim.agent = "QLearningTrain"
    /\ sim.training_mode
    /\ sim.pc = "crashed"
    /\ sim.request # "CONTINUE"
    /\ sim.episode = 0
    /\ sim.epsilon = EpsilonInit - EpsilonDecayRate

\* ------------------------------------------------ claims on get_action
\* The actions whose stored value at the player's state is greatest.
BestActions ==
    LET state == <<sim.player_pos, sim.visited_cells>>
    IN  {a \in Actions : \A b \in Actions : Stored(state, b) <= Stored(state, a)}

\* C38: with the exploration rate 0, get_action(state) can return exactly
\* the actions whose stored value, absent entries counting as 0, is maximal
\* among all actions for the state: every maximal action and no other.
C38_GreedyChoiceAtZero ==
    QStepReady =>
        get_action(sim.q_table, <<sim.player_pos, sim.visited_cells>>, 0) = BestActions

\* A step is about to be taken at a state where the table prefers some
\* actions to others.
C38_Witness ==
    /\ QStepReady
    /\ sim.q_table # <<>>
    /\ BestActions # Actions
    /\ BestActions # {}

\* A step is about to be taken at a state where two actions tie for the
\* greatest stored value.
TwoBestActions ==
    /\ QStepReady
    /\ Cardinality(BestActions) = 2

\* ------------------------------------------------ claims on every run
\* A Game exists and its run has not ended.
RunInProgress == sim.pc \in {"start", "wait", "sleep", "show"}

\* The walls of the map the Game was constructed on.
WallsAtConstruction == {p \in DOMAIN sim.pristine.grid : sim.pristine.grid[p] = "X"}

\* The player stands on a cell of the grid that holds no wall and held none
\* when the run began.
PlayerOnFreeCell ==
    /\ InBounds(sim.area, sim.player_pos[1], sim.player_pos[2])
    /\ sim.area.grid[sim.player_pos] # "X"
    /\ sim.player_pos \notin WallsAtConstruction

\* A step that is a tick of an agent's loop or the handling of a key.
TickOrKey == RunInProgress /\ (sim.pc = "wait" \/ sim'.keys # sim.keys)

\* C39: after any sequence of ticks of any agent and of manual move commands
\* the player position is inside the grid and not on a wall, and each tick
\* or move command changes it by at most one step to a 4-adjacent cell.
C39_PlayerStaysOnFreeCells ==
    /\ [](RunInProgress => PlayerOnFreeCell)
    /\ [][TickOrKey => (sim'.player_pos = sim.player_pos
                        \/ Adjacent(sim'.player_pos, sim.player_pos))]_vars

\* A run has moved the player next to a wall: one of its neighbours in the
\* grid holds a wall.
C39_Witness ==
    /\ sim.pc = "sleep"
    /\ sim.moves > 0
    /\ sim.player_pos # sim.start_pos
    /\ \E w \in WallsAtConstruction : Adjacent(w, sim.player_pos)

\* Supporting lemma for C39: between ticks the position changes only where
\* an episode of a Q-learning run puts the player back on the start cell.
JumpsOnlyToStart ==
    [][(RunInProgress /\ sim'.pc \in {"wait", "sleep", "show"}
          /\ sim'.player_pos # sim.player_pos /\ ~TickOrKey)
        => (sim.agent \in QAgents /\ sim'.player_pos = sim.start_pos)]_vars

\* A manual run has moved the player twice.
ManualMovedTwice ==
    /\ sim.mode = "manual"
    /\ sim.pc = "show"
    /\ sim.moves = 2
    /\ sim.player_pos # sim.start_pos

\* The cells of the grid that hold a wall now.
Walls == {p \in DOMAIN sim.area.grid : sim.area.grid[p] = "X"}

\* C40: no run changes a wall: during a run the cells tagged as wall are
\* exactly those of the map the Game was constructed on; a step of a run that
\* writes the grid writes Visited on the cell the player leaves and Player on
\* the cell it enters, and nothing else.
C40_WallsNeverChange ==
    /\ [](RunInProgress => Walls = WallsAtConstruction)
    /\ [][(RunInProgress /\ sim'.area # sim.area)
           => /\ sim'.area.rows = sim.area.rows
              /\ sim'.area.cols = sim.area.cols
              /\ sim'.area.grid = [[sim.area.grid EXCEPT ![sim.player_pos] = "V"]
                                      EXCEPT ![sim'.player_pos] = "P"]]_vars

\* A run has moved the player on a map with walls: the cell left is Visited,
\* the cell entered is Player and the walls stand.
C40_Witness ==
    /\ RunInProgress
    /\ sim.moves > 0
    /\ sim.player_pos # sim.start_pos
    /\ sim.area.grid[sim.start_pos] = "V"
    /\ sim.area.grid[sim.player_pos] = "P"
    /\ Walls # {}
    /\ Walls = WallsAtConstruction

\* Supporting lemma for C40: keys other than manual moves (pause, speed,
\* exit, restart, new map, main menu) and the end of a run leave the grid as
\* it is.
ControlsLeaveGrid ==
    [][(RunInProgress /\ sim'.keys # sim.keys /\ sim.mode # "manual")
        => sim'.area = sim.area]_vars

\* A Q-learning step has been blocked: the player's own cell was written
\* Visited and then Player again.
BlockedStepRewroteCell ==
    /\ sim.agent \in QAgents
    /\ sim.pc = "sleep"
    /\ sim.moves = 1
    /\ sim.player_pos = sim.start_pos
    /\ sim.area = sim.pristine

====
